---- MODULE Spec2Model ----
(***************************************************************************)
(* tideland/go-audit, package asserts: the assertion facade (Asserts), its *)
(* comparison kernel and the three failers (panicFailer, validationFailer, *)
(* testingFailer), as a state machine.                                     *)
(*                                                                         *)
(* Spec      several test goroutines calling facade methods on one shared  *)
(*           failer; Fail is modelled statement by statement, under the    *)
(*           failer's mutex.                                               *)
(***************************************************************************)
EXTENDS Integers, Sequences, FiniteSets, TLC

VARIABLES
    failer,     \* kind of the failer bound to the facade: "panic", "validation", "testing"
    mode,       \* testingFailer.mode (FailMode)
    printer,    \* the failer's printer: "standard", "wrapped" or "buffered"
    buffer,     \* bufferedPrinter.buffer of the one buffered printer
    old,        \* what each SetPrinter call returned, in order
    flushed,    \* what each Flush call returned, in order
    held,       \* per goroutine: the offsets its pending restore functions captured, innermost last
    offlog,     \* every IncrCallstackOffset / SetFailable call and every call of a returned function, in order
    failable,   \* testingFailer.failable: the Failable bound to the failer
    heldf,      \* per goroutine: what its SetFailable calls bound and their restorers captured, innermost last
    targets,    \* the Failable each fail signal went to, in order
    offset,     \* validationFailer.offset / testingFailer.offset
    mu,         \* the failer's mutex: 0 when free, else the goroutine holding it
    details,    \* validationFailer.details
    errs,       \* validationFailer.errs
    out,        \* every Logf/Errorf call the printer received, in order
    signals,    \* every Fail()/FailNow() call the Failable received, in order
    fails,      \* every Failer.Fail invocation (test, obtained, expected, msgs), in order
    pc,         \* per goroutine: position inside the current facade call
    cur,        \* per goroutine: the facade call in progress
    ret,        \* per goroutine: what its last completed call returned
    raised,     \* per goroutine: the hard fault that ended it, if any
    log,        \* completed facade calls, in order of completion
    \* the synchronization assertions (Wait, WaitClosed, WaitGroup, Retry)
    op,         \* the assertion the caller runs, "" for none
    timeout,    \* its timeout, in clock ticks
    want,       \* Wait: the expected signal
    now,        \* the clock, 0 when the call starts its timer
    sigc,       \* the signal channel's buffer: values with the time they were sent
    closedAt,   \* when sigc was closed, -1 while it is open
    sends,      \* values sent on sigc so far
    spc,        \* the caller's position
    timer,      \* the call's timer: "idle", "armed", "fired", "stopped"
    recvd,      \* what the caller's receives on sigc yielded, in order
    wg,         \* WaitGroup: the wait group's counter
    helper,     \* WaitGroup: position of the helper goroutine
    stopc,      \* WaitGroup: number of signals buffered in the private channel stopc
    spawned,    \* WaitGroup: helper goroutines started by the call
    retries,    \* Retry: the number of tries allowed
    pause,      \* Retry: the pause between two tries, in clock ticks
    rloop,      \* Retry: the loop counter r
    rfcalls,    \* Retry: what each invocation of rf returned, in order
    tested,     \* WaitTested: what each invocation of test got and returned, in order
    \* package environments: one Variables instance and the process environment
    env,        \* the process environment: per key its value, or Unset
    env0,       \* the environment when the Variables instance was created
    evars,      \* Variables.vars: per key the value saved for Restore, or NotSaved
    envops,     \* the operations done through the instance, in order
    \* package web: one simulated Response
    statusCode, \* Response.statusCode
    body,       \* Response.body
    writes,     \* every WriteHeader, Write and Body call on the response, in order
    \* package capture: one call of Stdout, Stderr or Both
    ckind,      \* the capture function called: "Stdout", "Stderr" or "Both"
    cpc,        \* the caller's position inside the capture call: the step of its plan it is at
    todo,       \* what f still has to write: stream and byte, in order
    written,    \* per stream: the bytes f wrote to it so far
    bound,      \* per stream: what os.Stdout / os.Stderr refer to, "orig" or "pipe"
    saved,      \* per stream: the local `old` of Stdout / Stderr, "none" before it is assigned
    pipe,       \* per stream: the bytes in the pipe's kernel buffer
    wopen,      \* per stream: whether the pipe's write end is open
    reader,     \* per stream: position of the goroutine copying from the pipe
    buf,        \* per stream: the bytes.Buffer the copy fills
    captured    \* per stream: the buffer of the Captured value returned, or NotYet

printVars == <<buffer, old, flushed>>

scopeVars == <<held, offlog, failable, heldf, targets>>

coreVars == <<failer, scopeVars, mode, printer, printVars, offset, mu, details, errs, out, signals, fails,
              pc, cur, ret, raised, log>>

syncVars == <<op, timeout, want, now, sigc, closedAt, sends, spc, timer, recvd,
              wg, helper, stopc, spawned, retries, pause, rloop, rfcalls, tested>>

envVars == <<env, env0, evars, envops>>

webVars == <<statusCode, body, writes>>

captureVars == <<ckind, cpc, todo, written, bound, saved, pipe, wopen, reader, buf, captured>>

auxVars == <<envVars, webVars, captureVars>>

vars == <<coreVars, syncVars, auxVars>>

-----------------------------------------------------------------------------
\* Bounds of the model.

\* goroutines sharing the facade
NumProcs == 2
\* facade calls started in one behaviour
MaxCalls == 2

Procs == 1..NumProcs

-----------------------------------------------------------------------------
\* Values of Go's `any`: a dynamic type k and a payload v (a tuple of integers).
\* nil is the untyped nil interface; an errable holds the id of the error its
\* Err() returns (0 for nil); a func() bool / func() error holds what it returns.

Nil == [k |-> "nil", v |-> <<>>]
VBool(b) == [k |-> "bool", v |-> <<IF b THEN 1 ELSE 0>>]
VInt(n) == [k |-> "int", v |-> <<n>>]
VStr(s) == [k |-> "string", v |-> s]
VFloat(n) == [k |-> "float64", v |-> <<n>>]
VError(id) == [k |-> "error", v |-> <<id>>]
VErrable(id) == [k |-> "errable", v |-> <<id>>]
FuncBool(b) == [k |-> "func() bool", v |-> <<IF b THEN 1 ELSE 0>>]
FuncError(id) == [k |-> "func() error", v |-> <<id>>]
Func == [k |-> "func()", v |-> <<1>>]
NilPtr == [k |-> "ptr", v |-> <<>>]

\* further dynamic types: byte and rune are uint8 and int32; a time is its
\* distance from the zero time; the payload of a slice, array or map is the
\* tuple of its elements, that of a []byte its bytes, that of a string its
\* UTF-8 bytes; a lenable holds what its Len() returns
VByte(n) == [k |-> "uint8", v |-> <<n>>]
VRune(n) == [k |-> "int32", v |-> <<n>>]
VTime(n) == [k |-> "time.Time", v |-> <<n>>]
VDuration(n) == [k |-> "time.Duration", v |-> <<n>>]
VSlice(elems) == [k |-> "slice", v |-> elems]
VArray(elems) == [k |-> "array", v |-> elems]
VMap(elems) == [k |-> "map", v |-> elems]
VBytes(bs) == [k |-> "[]byte", v |-> bs]
VLenable(n) == [k |-> "lenable", v |-> <<n>>]

\* &lowHigh{low, high}
LowHigh(low, high) == [k |-> "lowHigh", v |-> <<low, high>>]

\* the error with the given id, nil for id 0 (a nil error interface is nil)
ErrorOrNil(id) == IF id = 0 THEN Nil ELSE VError(id)

\* free-text context messages of a call
NoMsgs == <<>>
SomeMsgs == <<"info">>
MsgChoices == {NoMsgs, SomeMsgs}

-----------------------------------------------------------------------------
\* Comparison kernel (tester.go).  A predicate that raises a hard fault has
\* the outcome "fault" instead of a boolean.

isTrue(obtained) == obtained.v = <<1>>

isNil(obtained) ==
    \/ obtained.k = "nil"
    \/ /\ obtained.k \in {"chan", "func()", "func() bool", "func() error", "interface", "map", "ptr", "slice"}
       /\ obtained.v = <<>>

isEqual(obtained, expected) == obtained.k = expected.k /\ obtained.v = expected.v

\* reflect.ValueOf(nil).Type() panics: no type to compare
isAssignable(obtained, expected) ==
    IF obtained.k = "nil" \/ expected.k = "nil" THEN "fault"
    ELSE IF obtained.k = expected.k THEN "true" ELSE "false"

\* anyToError: nil, an error, the Err() of an errable, else panic
anyToError(obtained) ==
    CASE obtained.k = "nil" -> [fault |-> FALSE, err |-> Nil]
      [] obtained.k = "error" -> [fault |-> FALSE, err |-> obtained]
      [] obtained.k = "errable" -> [fault |-> FALSE, err |-> ErrorOrNil(obtained.v[1])]
      [] OTHER -> [fault |-> TRUE, err |-> Nil]

\* the zero value a failed type assertion l, lok := low.(T) leaves in l
ZeroValue(kind) == [k |-> kind, v |-> IF kind = "string" THEN <<>> ELSE <<0>>]

\* s <= t for two strings, byte by byte
RECURSIVE StrLeq(_, _)
StrLeq(s, t) ==
    IF s = <<>> THEN TRUE
    ELSE IF t = <<>> THEN FALSE
    ELSE IF Head(s) # Head(t) THEN Head(s) < Head(t)
    ELSE StrLeq(Tail(s), Tail(t))

\* a <= b for two values of one of the ordered types (for times: a.Equal(b)
\* || a.Before(b))
Leq(a, b) == IF a.k = "string" THEN StrLeq(a.v, b.v) ELSE a.v[1] <= b.v[1]

\* the bytes the rune starting at s[i] takes: a well-formed UTF-8 sequence
\* is one rune, any other byte is a rune of width 1
Cont(s, i) == i <= Len(s) /\ s[i] >= 128 /\ s[i] <= 191
RuneWidth(s, i) ==
    CASE s[i] < 128 -> 1
      [] s[i] >= 194 /\ s[i] <= 223 /\ Cont(s, i + 1) -> 2
      [] s[i] >= 224 /\ s[i] <= 239 /\ Cont(s, i + 1) /\ Cont(s, i + 2)
           /\ (s[i] = 224 => s[i + 1] >= 160) /\ (s[i] = 237 => s[i + 1] <= 159) -> 3
      [] s[i] >= 240 /\ s[i] <= 244 /\ Cont(s, i + 1) /\ Cont(s, i + 2) /\ Cont(s, i + 3)
           /\ (s[i] = 240 => s[i + 1] >= 144) /\ (s[i] = 244 => s[i + 1] <= 143) -> 4
      [] OTHER -> 1

\* utf8.RuneCountInString
RECURSIVE RuneCountFrom(_, _)
RuneCountFrom(s, i) == IF i > Len(s) THEN 0 ELSE 1 + RuneCountFrom(s, i + RuneWidth(s, i))
RuneCountInString(s) == RuneCountFrom(s, 1)

NoErr == ""

\* a func() that panics: what it hands to panic, and what recover returns
\* for it. The two differ for panic(nil) alone, where recover returns nil
\* or a *runtime.PanicNilError, as the module's go version has it.
PanicNilError == [k |-> "*runtime.PanicNilError", v |-> <<>>]
PanicFunc(payload, recovered) == [k |-> "func()", v |-> <<payload, recovered>>]
Panicking(payload) ==
    {PanicFunc(payload, r) : r \in IF payload = Nil THEN {Nil, PanicNilError} ELSE {payload}}

\* pf() raises a panic: a call of a nil func does, with a runtime error
RuntimeError == [k |-> "runtime.Error", v |-> <<>>]
Raises(pf) == pf.v # <<1>>
Payload(pf) == IF pf.v = <<>> THEN RuntimeError ELSE pf.v[1]
Recovered(pf) == IF pf.v = <<>> THEN RuntimeError ELSE pf.v[2]

\* hasPanic: ok stays false unless the deferred function finds r != nil
hasPanic(pf, reason) ==
    IF Raises(pf) /\ Recovered(pf) # Nil
    THEN IF reason = Nil THEN TRUE ELSE isEqual(Recovered(pf), reason)
    ELSE FALSE

\* a nearness check that takes the extent as it is given
isAboutSigned(obtained, expected, extent) ==
    LET low == expected - extent
        high == expected + extent
    IN  low <= obtained /\ obtained <= high

\* isAbout over fixed-point numbers
isAbout(obtained, expected, extent) ==
    LET ext == IF extent < 0 THEN extent * (-1) ELSE extent
        low == expected - ext
        high == expected + ext
    IN  low <= obtained /\ obtained <= high

\* a length check that counts the bytes of a string
hasLengthInBytes(obtained, expected) ==
    CASE obtained.k = "lenable" ->
            [ok |-> obtained.v[1] = expected, l |-> obtained.v[1], err |-> NoErr]
      [] obtained.k \in {"string", "array", "chan", "map", "slice", "[]byte"} ->
            [ok |-> Len(obtained.v) = expected, l |-> Len(obtained.v), err |-> NoErr]
      [] OTHER ->
            [ok |-> FALSE, l |-> 0, err |-> "obtained is no array, chan, map, slice, string and does not understand Len()"]

\* hasLength: Len() of a lenable, the rune count of a string, the length
\* of an array, chan, map or slice; anything else is an error
hasLength(obtained, expected) ==
    CASE obtained.k = "lenable" ->
            [ok |-> obtained.v[1] = expected, l |-> obtained.v[1], err |-> NoErr]
      [] obtained.k = "string" ->
            [ok |-> RuneCountInString(obtained.v) = expected, l |-> RuneCountInString(obtained.v), err |-> NoErr]
      [] obtained.k \in {"array", "chan", "map", "slice", "[]byte"} ->
            [ok |-> Len(obtained.v) = expected, l |-> Len(obtained.v), err |-> NoErr]
      [] OTHER ->
            [ok |-> FALSE, l |-> 0, err |-> "obtained is no array, chan, map, slice, string and does not understand Len()"]

\* the types isInRange switches on, with the name its error message uses
RangeTypes == {"uint8", "int", "float64", "int32", "string", "time.Time", "time.Duration"}
RangeTypeName(kind) ==
    CASE kind = "uint8" -> "byte"
      [] kind = "int32" -> "rune"
      [] kind = "time.Time" -> "time"
      [] kind = "time.Duration" -> "duration"
      [] OTHER -> kind

\* a range check with both bounds exclusive
rangeOfExclusive(o, kind, low, high) ==
    LET lok == low.k = kind
        hok == high.k = kind
        l == IF lok THEN low ELSE ZeroValue(kind)
        h == IF hok THEN high ELSE ZeroValue(kind)
    IN  IF ~lok /\ ~hok
        THEN [ok |-> FALSE, err |-> "low and/or high are no " \o RangeTypeName(kind)]
        ELSE [ok |-> Leq(l, o) /\ l # o /\ Leq(o, h) /\ o # h, err |-> NoErr]

\* l, lok := low.(T); h, hok := high.(T); if !lok && !hok { error };
\* return l <= o && o <= h
rangeOf(o, kind, low, high) ==
    LET lok == low.k = kind
        hok == high.k = kind
        l == IF lok THEN low ELSE ZeroValue(kind)
        h == IF hok THEN high ELSE ZeroValue(kind)
    IN  IF ~lok /\ ~hok
        THEN [ok |-> FALSE, err |-> "low and/or high are no " \o RangeTypeName(kind)]
        ELSE [ok |-> Leq(l, o) /\ Leq(o, h), err |-> NoErr]

\* isInRange: the standard types first, then the length of a collection
\* against int bounds
isInRange(obtained, low, high) ==
    IF obtained.k \in RangeTypes
    THEN rangeOf(obtained, obtained.k, low, high)
    ELSE IF hasLength(obtained, 0).err # NoErr
         THEN [ok |-> FALSE, err |-> "no valid type with a length"]
         ELSE rangeOf(VInt(hasLength(obtained, 0).l), "int", low, high)

\* the decimal digits of n >= 0, as bytes
RECURSIVE Digits(_)
Digits(n) == IF n < 10 THEN <<48 + n>> ELSE Digits(n \div 10) \o <<48 + (n % 10)>>

\* fmt.Sprintf("%v", value) for nil, bools, non-negative ints, strings and
\* byte slices (a byte slice prints as the list of its numbers)
RECURSIVE JoinDigits(_)
JoinDigits(bs) ==
    IF bs = <<>> THEN <<>>
    ELSE IF Len(bs) = 1 THEN Digits(bs[1])
    ELSE Digits(bs[1]) \o <<32>> \o JoinDigits(Tail(bs))
Sprintv(value) ==
    CASE value.k = "nil" -> <<60, 110, 105, 108, 62>>
      [] value.k = "bool" -> IF value.v = <<1>> THEN <<116, 114, 117, 101>> ELSE <<102, 97, 108, 115, 101>>
      [] value.k = "int" -> Digits(value.v[1])
      [] value.k = "string" -> value.v
      [] value.k = "[]byte" -> <<91>> \o JoinDigits(value.v) \o <<93>>
      [] OTHER -> <<63>>

\* strings.Contains / bytes.Contains
bytesContain(full, part) ==
    \E i \in 0..(Len(full) - Len(part)) : SubSeq(full, i + 1, i + Len(part)) = part

\* a containment test that compares the elements of a slice by their text
containsByText(part, full) ==
    CASE full.k \in {"string", "[]byte"} ->
            [ok |-> bytesContain(full.v, Sprintv(part)), err |-> NoErr]
      [] full.k \in {"array", "slice"} ->
            [ok |-> \E i \in 1..Len(full.v) : Sprintv(part) = Sprintv(full.v[i]), err |-> NoErr]
      [] OTHER ->
            [ok |-> FALSE, err |-> "full value is no string, array, or slice"]

\* contains: in a string or []byte the part's bytes (a string or []byte
\* as it is, anything else as %v prints it); in an array or slice an
\* element that is reflect.DeepEqual to the part; else an error
contains(part, full) ==
    CASE full.k \in {"string", "[]byte"} ->
            [ok |-> bytesContain(full.v, IF part.k \in {"string", "[]byte"} THEN part.v ELSE Sprintv(part)),
             err |-> NoErr]
      [] full.k \in {"array", "slice"} ->
            [ok |-> \E i \in 1..Len(full.v) : isEqual(part, full.v[i]), err |-> NoErr]
      [] OTHER ->
            [ok |-> FALSE, err |-> "full value is no string, array, or slice"]

\* Regular expressions, for patterns made of literal characters, '|',
\* '^' and '$': regexp parses a pattern as an alternation of sequences,
\* '|' binding weakest.
Bar == 124
Caret == 94
Dollar == 36

\* the alternatives of a pattern: the pieces between its '|'
RECURSIVE Alternatives(_)
Alternatives(pat) ==
    IF \A i \in 1..Len(pat) : pat[i] # Bar THEN <<pat>>
    ELSE LET i == CHOOSE i \in 1..Len(pat) : pat[i] = Bar /\ \A j \in 1..(i - 1) : pat[j] # Bar
         IN  <<SubSeq(pat, 1, i - 1)>> \o Alternatives(SubSeq(pat, i + 1, Len(pat)))

\* one alternative matches str from position pos on (pos characters are
\* already behind): '^' holds at the start of the text, '$' at its end, a
\* literal takes one equal character
RECURSIVE SeqMatchesAt(_, _, _)
SeqMatchesAt(atoms, str, pos) ==
    IF atoms = <<>> THEN TRUE
    ELSE CASE Head(atoms) = Caret -> pos = 0 /\ SeqMatchesAt(Tail(atoms), str, pos)
           [] Head(atoms) = Dollar -> pos = Len(str) /\ SeqMatchesAt(Tail(atoms), str, pos)
           [] OTHER -> /\ pos < Len(str)
                       /\ str[pos + 1] = Head(atoms)
                       /\ SeqMatchesAt(Tail(atoms), str, pos + 1)

\* regexp.MatchString(pattern, str): some alternative matches somewhere in str
MatchString(pattern, str) ==
    \E a \in 1..Len(Alternatives(pattern)), pos \in 0..Len(str) :
        SeqMatchesAt(Alternatives(pattern)[a], str, pos)

\* isMatching: regexp.MatchString("^"+regex+"$", obtained)
isMatching(obtained, regex) ==
    [ok |-> MatchString(<<Caret>> \o regex \o <<Dollar>>, obtained), err |-> NoErr]

-----------------------------------------------------------------------------
\* Source locations and messages.

NoLoc == [file |-> "", line |-> 0, fn |-> ""]

\* files of the assertion library itself
LibFiles == {"asserts.go", "failer.go", "extern.go"}

LibFrame(file, fn) == [file |-> file, line |-> 0, fn |-> fn]

\* the test functions the goroutines run, all in asserts_test.go
TestFn(g) == IF g = 1 THEN "TestA" ELSE IF g = 2 THEN "TestB" ELSE "TestC"

TestFrame(g, line) == [file |-> "asserts_test.go", line |-> line, fn |-> TestFn(g)]

\* The goroutine's stack while runtime.Callers runs inside here(), innermost
\* frame first: Callers, here, the failer's Fail, the facade frames (the
\* method that called Fail first, the methods that delegated to it after),
\* the test function, the test runner.
FacadeFrames(frames) == [i \in 1..Len(frames) |-> LibFrame("asserts.go", frames[i])]

\* the helpers the goroutine is inside of, innermost first: each called
\* IncrCallstackOffset on entry and holds its restore function until it returns
HelperFrames(g) == [i \in 1..Len(held[g]) |-> [file |-> "helper.go", line |-> 0, fn |-> "helper"]]

CallStack(g, frames, line) ==
    <<LibFrame("extern.go", "Callers"), LibFrame("failer.go", "here"), LibFrame("failer.go", "Fail")>>
        \o FacadeFrames(frames)
        \o HelperFrames(g)
        \o <<TestFrame(g, line), [file |-> "testing.go", line |-> 0, fn |-> "tRunner"]>>

\* here: runtime.Callers(offset, pcs) with one slot skips `offset` frames, 0
\* being Callers itself; nothing left gives ("", "")
here(stack, off) == IF off + 1 > Len(stack) \/ off < 0 THEN NoLoc ELSE stack[off + 1]

\* obexString: which of obtained and expected a message shows, by test
obexString(test, obtained, expected) ==
    CASE test \in {"True", "False", "Nil", "NotNil", "Empty", "NotEmpty"} ->
            [form |-> "'ob'", ob |-> obtained, ex |-> Nil]
      [] test \in {"Implementor", "Assignable", "Unassignable"} ->
            [form |-> "'descr(ob)' <> 'descr(ex)'", ob |-> obtained, ex |-> expected]
      [] test = "Range" ->
            [form |-> "not 'low' <= 'ob' <= 'high'", ob |-> obtained, ex |-> expected]
      [] test = "Fail" ->
            [form |-> "fail intended", ob |-> Nil, ex |-> Nil]
      [] OTHER ->
            [form |-> "'ob' <> 'ex'", ob |-> obtained, ex |-> expected]

\* failString: "assert '<test>' failed: <obex> (<msgs>)"
failString(test, obex, msgs) == [loc |-> NoLoc, test |-> test, body |-> obex, msgs |-> msgs]

NoMessage == [loc |-> NoLoc, test |-> "", body |-> [form |-> "", ob |-> Nil, ex |-> Nil], msgs |-> <<>>]

\* the line testingFailer.Fail builds in its buffer
testingLine(loc, test, obtained, expected, msgs) ==
    [loc |-> loc, test |-> test, msgs |-> msgs,
     body |->
        CASE test \in {"True", "False", "Nil", "NotNil", "NoError", "Empty", "NotEmpty", "Panics"} ->
                [form |-> "got: ob", ob |-> obtained, ex |-> Nil]
          [] test \in {"Implementor", "Assignable", "Unassignable"} ->
                [form |-> "got: descr(ob), want: descr(ex)", ob |-> obtained, ex |-> expected]
          [] test \in {"Contains", "NotContains"} ->
                [form |-> "part: ob, full: ex", ob |-> obtained, ex |-> expected]
          [] test = "Fail" ->
                [form |-> "", ob |-> Nil, ex |-> Nil]
          [] OTHER ->
                [form |-> "got: typed(ob), want: typed(ex)", ob |-> obtained, ex |-> expected]]

-----------------------------------------------------------------------------
\* Assertion facade (asserts.go).  A method's outcome: it passes, it hands a
\* failure to the failer's Fail (test, obtained, expected, msgs), or the kernel
\* raises a hard fault before any verdict.  frames lists the facade methods on
\* the stack when Fail is called, innermost first.

Pass(m) == [verdict |-> "pass", test |-> "", ob |-> Nil, ex |-> Nil, msgs |-> <<>>, frames |-> <<m>>]
FailWith(m, test, ob, ex, msgs) ==
    [verdict |-> "fail", test |-> test, ob |-> ob, ex |-> ex, msgs |-> msgs, frames |-> <<m>>]
Fault(m) == [verdict |-> "fault", test |-> "", ob |-> Nil, ex |-> Nil, msgs |-> <<>>, frames |-> <<m>>]

\* method m delegated to another facade method, whose outcome is r
Delegated(r, m) == [r EXCEPT !.frames = Append(@, m)]

Asserts_True(obtained, msgs) ==
    IF ~isTrue(obtained) THEN FailWith("True", "True", obtained, VBool(TRUE), msgs) ELSE Pass("True")

Asserts_False(obtained, msgs) ==
    IF isTrue(obtained) THEN FailWith("False", "False", obtained, VBool(FALSE), msgs) ELSE Pass("False")

Asserts_Nil(obtained, msgs) ==
    IF ~isNil(obtained) THEN FailWith("Nil", "Nil", obtained, Nil, msgs) ELSE Pass("Nil")

Asserts_NotNil(obtained, msgs) ==
    IF isNil(obtained) THEN FailWith("NotNil", "NotNil", obtained, Nil, msgs) ELSE Pass("NotNil")

Asserts_Equal(obtained, expected, msgs) ==
    IF ~isEqual(obtained, expected) THEN FailWith("Equal", "Equal", obtained, expected, msgs)
    ELSE Pass("Equal")

Asserts_Different(obtained, expected, msgs) ==
    IF isEqual(obtained, expected) THEN FailWith("Different", "Different", obtained, expected, msgs)
    ELSE Pass("Different")

Asserts_NoError(obtained, msgs) ==
    LET e == anyToError(obtained) IN
    IF e.fault THEN Fault("NoError")
    ELSE IF ~isNil(e.err) THEN FailWith("NoError", "NoError", e.err, Nil, msgs)
    ELSE Pass("NoError")

Asserts_AnyError(obtained, msgs) ==
    LET e == anyToError(obtained) IN
    IF e.fault THEN Fault("AnyError")
    ELSE IF isNil(e.err) THEN FailWith("AnyError", "AnyError", e.err, Nil, msgs)
    ELSE Pass("AnyError")

Asserts_OK(obtained, msgs) ==
    Delegated(
        CASE obtained.k = "bool" -> Asserts_True(obtained, msgs)
          [] obtained.k = "func() bool" -> Asserts_True(VBool(obtained.v = <<1>>), msgs)
          [] obtained.k = "int" -> Asserts_Equal(obtained, VInt(0), msgs)
          [] obtained.k = "string" -> Asserts_Equal(obtained, VStr(<<>>), msgs)
          [] obtained.k = "func() error" -> Asserts_NoError(ErrorOrNil(obtained.v[1]), msgs)
          [] OTHER -> Asserts_NoError(obtained, msgs),
        "OK")

Asserts_NotOK(obtained, msgs) ==
    Delegated(
        CASE obtained.k = "bool" -> Asserts_False(obtained, msgs)
          [] obtained.k = "func() bool" -> Asserts_False(VBool(obtained.v = <<1>>), msgs)
          [] obtained.k = "int" -> Asserts_Different(obtained, VInt(0), msgs)
          [] obtained.k = "string" -> Asserts_Different(obtained, VStr(<<>>), msgs)
          [] obtained.k = "func() error" -> Asserts_AnyError(ErrorOrNil(obtained.v[1]), msgs)
          [] OTHER -> Asserts_AnyError(obtained, msgs),
        "NotOK")

Asserts_Assignable(obtained, expected, msgs) ==
    LET a == isAssignable(obtained, expected) IN
    IF a = "fault" THEN Fault("Assignable")
    ELSE IF a = "false" THEN FailWith("Assignable", "Assignable", obtained, expected, msgs)
    ELSE Pass("Assignable")

Asserts_Unassignable(obtained, expected, msgs) ==
    LET a == isAssignable(obtained, expected) IN
    IF a = "fault" THEN Fault("Unassignable")
    ELSE IF a = "true" THEN FailWith("Unassignable", "Unassignable", obtained, expected, msgs)
    ELSE Pass("Unassignable")

Asserts_Fail(msgs) == FailWith("Fail", "Fail", Nil, Nil, msgs)

\* "type missmatch: " + err.Error(), in place of the caller's messages
TypeMismatch(err) == <<"type missmatch: " \o err>>

Asserts_Range(obtained, low, high, msgs) ==
    LET expected == LowHigh(low, high)
        r == isInRange(obtained, low, high)
    IN  IF r.err # NoErr THEN FailWith("Range", "Range", obtained, expected, TypeMismatch(r.err))
        ELSE IF ~r.ok THEN FailWith("Range", "Range", obtained, expected, msgs)
        ELSE Pass("Range")

Asserts_Contains(part, full, msgs) ==
    LET r == contains(part, full)
    IN  IF r.err # NoErr THEN FailWith("Contains", "Contains", part, full, TypeMismatch(r.err))
        ELSE IF ~r.ok THEN FailWith("Contains", "Contains", part, full, msgs)
        ELSE Pass("Contains")

Asserts_NotContains(part, full, msgs) ==
    LET r == contains(part, full)
    IN  IF r.err # NoErr THEN FailWith("NotContains", "NotContains", part, full, TypeMismatch(r.err))
        ELSE IF r.ok THEN FailWith("NotContains", "NotContains", part, full, msgs)
        ELSE Pass("NotContains")

Asserts_Match(obtained, regex, msgs) ==
    LET r == isMatching(obtained.v, regex.v)
    IN  IF r.err # NoErr THEN FailWith("Match", "Match", obtained, regex, <<"can't compile regex: " \o r.err>>)
        ELSE IF ~r.ok THEN FailWith("Match", "Match", obtained, regex, msgs)
        ELSE Pass("Match")

\* err.Error(): the text of error id is the one letter 110 + id
ErrorText(err) == <<110 + err.v[1]>>

\* ErrorMatch: anyToError, then err.Error(), which dereferences a nil error
Asserts_ErrorMatch(obtained, regex, msgs) ==
    IF obtained.k = "nil" THEN FailWith("ErrorMatch", "ErrorMatch", Nil, regex, <<"error is nil">>)
    ELSE LET e == anyToError(obtained) IN
         IF e.fault \/ e.err = Nil THEN Fault("ErrorMatch")
         ELSE LET r == isMatching(ErrorText(e.err), regex.v)
              IN  IF r.err # NoErr
                  THEN FailWith("ErrorMatch", "ErrorMatch", e.err, regex, <<"can't compile regex: " \o r.err>>)
                  ELSE IF ~r.ok THEN FailWith("ErrorMatch", "ErrorMatch", e.err, regex, msgs)
                  ELSE Pass("ErrorMatch")

Asserts_ErrorContains(obtained, part, msgs) ==
    IF obtained.k = "nil" THEN FailWith("ErrorContains", "ErrorContains", Nil, part, <<"error is nil">>)
    ELSE LET e == anyToError(obtained) IN
         IF e.fault \/ e.err = Nil THEN Fault("ErrorContains")
         ELSE IF ~bytesContain(ErrorText(e.err), part.v)
              THEN FailWith("ErrorContains", "ErrorContains", obtained, part, msgs)
              ELSE Pass("ErrorContains")

\* ValueDescription: the reflect kind of the value, as text
ValueDescription(value) ==
    [k |-> "descr", v |-> <<IF value.k = "nil" THEN "invalid" ELSE value.k>>]

\* the two trailing arguments of About as one value
AboutArgs(expected, extent) == [k |-> "args", v |-> <<expected, extent>>]

Asserts_About(obtained, expected, extent, msgs) ==
    IF ~isAbout(obtained.v[1], expected.v[1], extent.v[1])
    THEN FailWith("About", "About", obtained, expected, msgs)
    ELSE Pass("About")

Asserts_Panics(pf, msgs) ==
    IF ~hasPanic(pf, Nil) THEN FailWith("Panics", "Panics", ValueDescription(pf), Nil, msgs)
    ELSE Pass("Panics")

Asserts_NotPanics(pf, msgs) ==
    IF hasPanic(pf, Nil) THEN FailWith("NotPanics", "NotPanics", ValueDescription(pf), Nil, msgs)
    ELSE Pass("NotPanics")

Asserts_PanicsWith(pf, reason, msgs) ==
    IF ~hasPanic(pf, reason) THEN FailWith("PanicsWith", "PanicsWith", ValueDescription(pf), reason, msgs)
    ELSE Pass("PanicsWith")

Asserts_Empty(obtained, msgs) ==
    LET r == hasLength(obtained, 0)
    IN  IF r.err # NoErr THEN FailWith("Empty", "Empty", ValueDescription(obtained), VInt(0), <<r.err>>)
        ELSE IF ~r.ok THEN FailWith("Empty", "Empty", VInt(r.l), VInt(0), msgs)
        ELSE Pass("Empty")

Asserts_NotEmpty(obtained, msgs) ==
    LET r == hasLength(obtained, 0)
    IN  IF r.err # NoErr THEN FailWith("NotEmpty", "NotEmpty", ValueDescription(obtained), VInt(0), <<r.err>>)
        ELSE IF r.ok THEN FailWith("NotEmpty", "NotEmpty", VInt(r.l), VInt(0), msgs)
        ELSE Pass("NotEmpty")

Asserts_Length(obtained, expected, msgs) ==
    LET r == hasLength(obtained, expected.v[1])
    IN  IF r.err # NoErr THEN FailWith("Length", "Length", ValueDescription(obtained), expected, <<r.err>>)
        ELSE IF ~r.ok THEN FailWith("Length", "Length", VInt(r.l), expected, msgs)
        ELSE Pass("Length")

\* the facade method m applied to (x, y) with the context messages msgs
Facade(m, x, y, msgs) ==
    CASE m = "True" -> Asserts_True(x, msgs)
      [] m = "False" -> Asserts_False(x, msgs)
      [] m = "Nil" -> Asserts_Nil(x, msgs)
      [] m = "NotNil" -> Asserts_NotNil(x, msgs)
      [] m = "Equal" -> Asserts_Equal(x, y, msgs)
      [] m = "Different" -> Asserts_Different(x, y, msgs)
      [] m = "NoError" -> Asserts_NoError(x, msgs)
      [] m = "AnyError" -> Asserts_AnyError(x, msgs)
      [] m = "OK" -> Asserts_OK(x, msgs)
      [] m = "NotOK" -> Asserts_NotOK(x, msgs)
      [] m = "Assignable" -> Asserts_Assignable(x, y, msgs)
      [] m = "Unassignable" -> Asserts_Unassignable(x, y, msgs)
      [] m = "Fail" -> Asserts_Fail(msgs)
      [] m = "Range" -> Asserts_Range(x, y.v[1], y.v[2], msgs)
      [] m = "Contains" -> Asserts_Contains(x, y, msgs)
      [] m = "Match" -> Asserts_Match(x, y, msgs)
      [] m = "About" -> Asserts_About(x, y.v[1], y.v[2], msgs)
      [] m = "ErrorMatch" -> Asserts_ErrorMatch(x, y, msgs)
      [] m = "ErrorContains" -> Asserts_ErrorContains(x, y, msgs)
      [] m = "Panics" -> Asserts_Panics(x, msgs)
      [] m = "NotPanics" -> Asserts_NotPanics(x, msgs)
      [] m = "PanicsWith" -> Asserts_PanicsWith(x, y, msgs)
      [] m = "Empty" -> Asserts_Empty(x, msgs)
      [] m = "NotEmpty" -> Asserts_NotEmpty(x, msgs)
      [] m = "Length" -> Asserts_Length(x, y, msgs)
      [] m = "NotContains" -> Asserts_NotContains(x, y, msgs)

-----------------------------------------------------------------------------
\* Failers (failer.go).

NoFailing == 0
FailContinue == 1
FailStop == 2
FailModes == {NoFailing, FailContinue, FailStop}

\* NewValidation / NewTesting: offset: 4
InitialOffset == 4

NoCall ==
    [m |-> "", x |-> Nil, y |-> Nil, verdict |-> "", test |-> "", ob |-> Nil, ex |-> Nil,
     msgs |-> <<>>, frames |-> <<>>, line |-> 0, text |-> NoMessage]

NoFault == [by |-> "", msg |-> NoMessage]

\* goroutines inside a failing facade call
InFlight == {g \in Procs : pc[g] \notin {"idle", "dead", "sf_write"}}

\* facade calls started so far; the n-th call stands on line n of the test file
Started == Len(log) + Cardinality(InFlight)

Logged(g, c, r) ==
    [g |-> g, m |-> c.m, x |-> c.x, y |-> c.y, verdict |-> c.verdict, test |-> c.test,
     line |-> c.line, ret |-> r]

\* a Lock that never waits
CanLockUnguarded(g) == TRUE

\* sync.Mutex.Lock: blocks until the mutex is free
CanLock(g) == mu = 0

\* no synchronization assertion is running
NoSync ==
    /\ op = ""
    /\ timeout = 0
    /\ want = Nil
    /\ now = 0
    /\ sigc = <<>>
    /\ closedAt = -1
    /\ sends = 0
    /\ spc = "done"
    /\ timer = "idle"
    /\ recvd = <<>>
    /\ wg = 0
    /\ helper = "none"
    /\ stopc = 0
    /\ spawned = 0
    /\ retries = 0
    /\ pause = 0
    /\ rloop = 0
    /\ rfcalls = <<>>
    /\ tested = <<>>

\* the Failable handed to NewTesting, and those of the sub-tests
FirstFailable == 0

\* nothing incremented or rebound yet; only a testing failer has a failable
NoScopes ==
    /\ held = [g \in Procs |-> <<>>]
    /\ offlog = <<>>
    /\ failable = FirstFailable
    /\ heldf = [g \in Procs |-> <<>>]
    /\ targets = <<>>

\* NewBufferedPrinter: nothing buffered, returned or flushed yet
NoPrints ==
    /\ buffer = <<>>
    /\ old = <<>>
    /\ flushed = <<>>

\* the environment variables of the model
Keys == {"A", "B"}

\* what os.LookupEnv yields for a variable that is not set
NotSet == [value |-> "", ok |-> FALSE]

\* a map[string]string without entries
EmptyMap == [k \in {} |-> ""]

\* NewVariables: nothing saved yet; no variable set
NoEnv ==
    /\ env = [k \in Keys |-> NotSet]
    /\ env0 = env
    /\ evars = EmptyMap
    /\ envops = <<>>

\* http.StatusOK
StatusOK == 200

\* newResponse: status 200 and an empty body
NoResponse ==
    /\ statusCode = StatusOK
    /\ body = <<>>
    /\ writes = <<>>

\* the two standard streams, os.Stdout and os.Stderr
Streams == {"out", "err"}

\* no capture running: both streams refer to the original files
NoCapture ==
    /\ ckind = ""
    /\ cpc = 1
    /\ todo = <<>>
    /\ written = [s \in Streams |-> <<>>]
    /\ bound = [s \in Streams |-> "orig"]
    /\ saved = [s \in Streams |-> "none"]
    /\ pipe = [s \in Streams |-> <<>>]
    /\ wopen = [s \in Streams |-> FALSE]
    /\ reader = [s \in Streams |-> "none"]
    /\ buf = [s \in Streams |-> <<>>]
    /\ captured = [s \in Streams |-> <<>>]

\* the packages around asserts are not in use
NoAux ==
    /\ NoEnv
    /\ NoResponse
    /\ NoCapture

\* bufferedPrinter.Logf / Errorf: the line under its prefix
Buffered(level, line) == [prefix |-> IF level = "log" THEN "[LOG] " ELSE "[ERR] ", text |-> line]

\* f.printer.Logf / f.printer.Errorf: the printer bound to the failer gets
\* the line; the buffered printer appends it to its buffer
Output(level, line) ==
    /\ out' = Append(out, [level |-> level, sink |-> printer, text |-> line])
    /\ buffer' = IF printer = "buffered" THEN Append(buffer, Buffered(level, line)) ELSE buffer
    /\ UNCHANGED <<old, flushed>>

\* New / NewPanic / NewValidation / NewTesting
Init ==
    /\ failer \in {"panic", "validation", "testing"}
    /\ mode \in (IF failer = "testing" THEN FailModes ELSE {NoFailing})
    /\ printer \in (IF failer = "testing" THEN {"standard", "wrapped"} ELSE {"standard"})
    /\ offset = (IF failer = "panic" THEN 0 ELSE InitialOffset)
    /\ mu = 0
    /\ details = <<>>
    /\ errs = <<>>
    /\ out = <<>>
    /\ NoPrints
    /\ NoScopes
    /\ NoAux
    /\ signals = <<>>
    /\ fails = <<>>
    /\ pc = [g \in Procs |-> "idle"]
    /\ cur = [g \in Procs |-> NoCall]
    /\ ret = [g \in Procs |-> "none"]
    /\ raised = [g \in Procs |-> NoFault]
    /\ log = <<>>
    /\ NoSync

\* A goroutine calls facade method m: the kernel decides; a pass returns true
\* at once, a failure goes to a.failer.Fail, a kernel fault unwinds the goroutine.
Enter(g, m, x, y, msgs) ==
    /\ pc[g] = "idle"
    /\ LET r == Facade(m, x, y, msgs)
           c == [m |-> m, x |-> x, y |-> y, verdict |-> r.verdict, test |-> r.test, ob |-> r.ob, ex |-> r.ex,
                 msgs |-> r.msgs, frames |-> r.frames, line |-> Started + 1, text |-> NoMessage]
       IN  CASE r.verdict = "pass" ->
                    /\ ret' = [ret EXCEPT ![g] = "true"]
                    /\ log' = Append(log, Logged(g, c, "true"))
                    /\ UNCHANGED <<pc, cur, raised, fails>>
              [] r.verdict = "fault" ->
                    /\ pc' = [pc EXCEPT ![g] = "dead"]
                    /\ ret' = [ret EXCEPT ![g] = "panic"]
                    /\ raised' = [raised EXCEPT ![g] = [by |-> "kernel", msg |-> NoMessage]]
                    /\ log' = Append(log, Logged(g, c, "panic"))
                    /\ UNCHANGED <<cur, fails>>
              [] r.verdict = "fail" ->
                    /\ pc' = [pc EXCEPT ![g] = "Fail"]
                    /\ cur' = [cur EXCEPT ![g] = c]
                    /\ fails' = Append(fails, [g |-> g, test |-> r.test, ob |-> r.ob, ex |-> r.ex, msgs |-> r.msgs])
                    /\ UNCHANGED <<ret, raised, log>>
    /\ UNCHANGED <<auxVars, failer, scopeVars, mode, printer, printVars, offset, mu, details, errs, out, signals>>
    /\ UNCHANGED syncVars

\* validationFailer.Fail / testingFailer.Fail: f.mu.Lock()
Lock(g) ==
    /\ pc[g] = "Fail"
    /\ failer \in {"validation", "testing"}
    /\ CanLock(g)
    /\ mu' = g
    /\ pc' = [pc EXCEPT ![g] = IF failer = "validation" THEN "v_details" ELSE "t_print"]
    /\ UNCHANGED <<auxVars, failer, scopeVars, mode, printer, printVars, offset, details, errs, out, signals, fails, cur, ret, raised, log>>
    /\ UNCHANGED syncVars

\* the failureDetail validationFailer.Fail builds (the timestamp left out)
validationDetail(g, c) ==
    [location |-> here(CallStack(g, c.frames, c.line), offset),
     test |-> c.test,
     err |-> failString(c.test, obexString(c.test, c.ob, c.ex), c.msgs),
     message |-> c.msgs]

\* validationFailer.Fail: f.details = append(f.details, detail)
AppendDetail(g) ==
    /\ pc[g] = "v_details"
    /\ details' = Append(details, validationDetail(g, cur[g]))
    /\ cur' = [cur EXCEPT ![g].text = validationDetail(g, cur[g]).err]
    /\ pc' = [pc EXCEPT ![g] = "v_errs"]
    /\ UNCHANGED <<auxVars, failer, scopeVars, mode, printer, printVars, offset, mu, errs, out, signals, fails, ret, raised, log>>
    /\ UNCHANGED syncVars

\* validationFailer.Fail: f.errs = append(f.errs, err)
AppendErr(g) ==
    /\ pc[g] = "v_errs"
    /\ errs' = Append(errs, cur[g].text)
    /\ pc' = [pc EXCEPT ![g] = "unlock"]
    /\ UNCHANGED <<auxVars, failer, scopeVars, mode, printer, printVars, offset, mu, details, out, signals, fails, cur, ret, raised, log>>
    /\ UNCHANGED syncVars

\* testingFailer.Fail: build the line, then Logf (NoFailing) or Errorf
TestingPrint(g) ==
    /\ pc[g] = "t_print"
    /\ LET c == cur[g]
           line == testingLine(here(CallStack(g, c.frames, c.line), offset), c.test, c.ob, c.ex, c.msgs)
       IN  CASE mode = NoFailing ->
                    /\ Output("log", line)
                    /\ pc' = [pc EXCEPT ![g] = "unlock"]
              [] mode \in {FailContinue, FailStop} ->
                    /\ Output("err", line)
                    /\ pc' = [pc EXCEPT ![g] = "t_signal"]
              [] OTHER ->
                    /\ UNCHANGED <<out, printVars>>
                    /\ pc' = [pc EXCEPT ![g] = "unlock"]
    /\ UNCHANGED <<auxVars, failer, scopeVars, mode, printer, offset, mu, details, errs, signals, fails, cur, ret, raised, log>>
    /\ UNCHANGED syncVars

\* the fail signal with the two modes confused
TestingSignalSwapped(g) ==
    /\ pc[g] = "t_signal"
    /\ signals' = Append(signals, IF mode = FailContinue THEN "FailNow" ELSE "Fail")
    /\ targets' = Append(targets, failable)
    /\ pc' = [pc EXCEPT ![g] = "unlock"]
    /\ UNCHANGED <<auxVars, failer, held, offlog, failable, heldf, mode, printer, printVars, offset, mu, details, errs, out, fails, cur, ret, raised, log>>
    /\ UNCHANGED syncVars

\* testingFailer.Fail: f.failable.Fail() (FailContinue) or f.failable.FailNow() (FailStop)
TestingSignal(g) ==
    /\ pc[g] = "t_signal"
    /\ signals' = Append(signals, IF mode = FailContinue THEN "Fail" ELSE "FailNow")
    /\ targets' = Append(targets, failable)
    /\ pc' = [pc EXCEPT ![g] = "unlock"]
    /\ UNCHANGED <<auxVars, failer, held, offlog, failable, heldf, mode, printer, printVars, offset, mu, details, errs, out, fails, cur, ret, raised, log>>
    /\ UNCHANGED syncVars

\* a Fail that reports the assertion as held
UnlockReturningTrue(g) ==
    /\ pc[g] = "unlock"
    /\ mu' = 0
    /\ ret' = [ret EXCEPT ![g] = "true"]
    /\ log' = Append(log, Logged(g, cur[g], "true"))
    /\ pc' = [pc EXCEPT ![g] = "idle"]
    /\ cur' = [cur EXCEPT ![g] = NoCall]
    /\ UNCHANGED <<auxVars, failer, scopeVars, mode, printer, printVars, offset, details, errs, out, signals, fails, raised>>
    /\ UNCHANGED syncVars

\* validationFailer.Fail / testingFailer.Fail: return false, the deferred
\* f.mu.Unlock() running on the way out
Unlock(g) ==
    /\ pc[g] = "unlock"
    /\ mu' = 0
    /\ ret' = [ret EXCEPT ![g] = "false"]
    /\ log' = Append(log, Logged(g, cur[g], "false"))
    /\ pc' = [pc EXCEPT ![g] = "idle"]
    /\ cur' = [cur EXCEPT ![g] = NoCall]
    /\ UNCHANGED <<auxVars, failer, scopeVars, mode, printer, printVars, offset, details, errs, out, signals, fails, raised>>
    /\ UNCHANGED syncVars

\* panicFailer.Fail: f.printer.Errorf(failStr)
PanicPrint(g) ==
    /\ pc[g] = "Fail"
    /\ failer = "panic"
    /\ LET c == cur[g]
           failStr == failString(c.test, obexString(c.test, c.ob, c.ex), c.msgs)
       IN  /\ Output("err", failStr)
           /\ cur' = [cur EXCEPT ![g].text = failStr]
    /\ pc' = [pc EXCEPT ![g] = "p_panic"]
    /\ UNCHANGED <<auxVars, failer, scopeVars, mode, printer, offset, mu, details, errs, signals, fails, ret, raised, log>>
    /\ UNCHANGED syncVars

\* a panicFailer.Fail that prints and returns false
PanicRaiseOmitted(g) ==
    /\ pc[g] = "p_panic"
    /\ ret' = [ret EXCEPT ![g] = "false"]
    /\ log' = Append(log, Logged(g, cur[g], "false"))
    /\ pc' = [pc EXCEPT ![g] = "idle"]
    /\ cur' = [cur EXCEPT ![g] = NoCall]
    /\ UNCHANGED <<auxVars, failer, scopeVars, mode, printer, printVars, offset, mu, details, errs, out, signals, fails, raised>>
    /\ UNCHANGED syncVars

\* panicFailer.Fail: panic(failStr)
PanicRaise(g) ==
    /\ pc[g] = "p_panic"
    /\ raised' = [raised EXCEPT ![g] = [by |-> "failer", msg |-> cur[g].text]]
    /\ ret' = [ret EXCEPT ![g] = "panic"]
    /\ log' = Append(log, Logged(g, cur[g], "panic"))
    /\ pc' = [pc EXCEPT ![g] = "dead"]
    /\ cur' = [cur EXCEPT ![g] = NoCall]
    /\ UNCHANGED <<auxVars, failer, scopeVars, mode, printer, printVars, offset, mu, details, errs, out, signals, fails>>
    /\ UNCHANGED syncVars

\* the calls the test goroutines of Spec make: <<method, x, y, msgs>>
CoreCalls ==
    {<<"True", VBool(b), Nil, NoMsgs>> : b \in BOOLEAN}
        \cup {<<"Equal", VInt(1), VInt(2), NoMsgs>>,
              <<"OK", VBool(FALSE), Nil, NoMsgs>>,
              <<"Assignable", Func, VInt(11), NoMsgs>>,
              <<"Fail", Nil, Nil, SomeMsgs>>}

Call(g) ==
    /\ Started < MaxCalls
    /\ \E c \in CoreCalls : Enter(g, c[1], c[2], c[3], c[4])

Next ==
    \E g \in Procs :
        \/ Call(g)
        \/ Lock(g)
        \/ AppendDetail(g)
        \/ AppendErr(g)
        \/ TestingPrint(g)
        \/ TestingSignal(g)
        \/ Unlock(g)
        \/ PanicPrint(g)
        \/ PanicRaise(g)

Spec == Init /\ [][Next]_vars

-----------------------------------------------------------------------------
\* SpecFacade: one facade call, any method on any argument, on any of the
\* three failers, run to its end by a single goroutine.

Vals ==
    {Nil, NilPtr, Func, VBool(TRUE), VBool(FALSE), VInt(0), VInt(1), VStr(<<>>), VStr(<<111>>),
     VFloat(1), VError(1), VErrable(0), VErrable(1),
     FuncBool(TRUE), FuncBool(FALSE), FuncError(0), FuncError(1)}

PairVals == {Nil, Func, VInt(0), VInt(1), VStr(<<>>)}

FacadeCalls ==
    {<<m, VBool(b), Nil, msgs>> : m \in {"True", "False"}, b \in BOOLEAN, msgs \in MsgChoices}
        \cup {<<m, x, Nil, NoMsgs>> : m \in {"Nil", "NotNil", "NoError", "AnyError", "OK", "NotOK"}, x \in Vals}
        \cup {<<m, x, y, NoMsgs>> : m \in {"Equal", "Different", "Assignable", "Unassignable"},
                                    x \in PairVals, y \in PairVals}
        \cup {<<"Fail", Nil, Nil, msgs>> : msgs \in MsgChoices}

FacadeCall ==
    /\ Started = 0
    /\ \E c \in FacadeCalls : Enter(1, c[1], c[2], c[3], c[4])

NextFacade ==
    \/ FacadeCall
    \/ Lock(1)
    \/ AppendDetail(1)
    \/ AppendErr(1)
    \/ TestingPrint(1)
    \/ TestingSignal(1)
    \/ Unlock(1)
    \/ PanicPrint(1)
    \/ PanicRaise(1)

SpecFacade == Init /\ [][NextFacade]_vars

-----------------------------------------------------------------------------
\* The comparison kernel behind the facade: one call of a method whose
\* verdict comes from a kernel predicate, over bounded argument sets, on
\* each of the three failers.

\* the largest number tried as a value or bound
MaxInt == 2

Nums == 0..MaxInt

\* obtained values of Range: each ordered type, collections, and values
\* with neither order nor length
RangeObtained ==
    {VInt(n) : n \in Nums}
        \cup {VByte(1), VFloat(1), VRune(1), VStr(<<98>>), VTime(1), VDuration(1)}
        \cup {VSlice(<<>>), VSlice(<<VInt(7)>>), VArray(<<VInt(7), VInt(8)>>), VMap(<<VInt(7)>>), VLenable(1)}
        \cup {VBool(TRUE), Nil}

\* bounds of Range: ints, a value below and one above for each other
\* ordered type, and nil
RangeBounds ==
    {VInt(n) : n \in Nums}
        \cup {VByte(0), VByte(2), VFloat(0), VFloat(2), VRune(0), VRune(2), VStr(<<97>>), VStr(<<99>>),
              VTime(0), VTime(2), VDuration(0), VDuration(2), Nil}

RangeCalls == {<<"Range", o, LowHigh(l, h), NoMsgs>> : o \in RangeObtained, l \in RangeBounds, h \in RangeBounds}

\* parts and full values of Contains: the number 1 and the texts "1" and
\* "12", as string and as bytes; strings, byte slices, slices and arrays
\* holding them; full values that are no container
ContainsParts == {VInt(1), VStr(<<49>>), VStr(<<49, 50>>), VBytes(<<49>>), VBool(TRUE), Nil}

ContainsFulls ==
    {VStr(<<>>), VStr(<<97>>), VStr(<<97, 49, 50>>), VBytes(<<49, 50>>), VBytes(<<98>>),
     VSlice(<<VInt(1), VStr(<<50>>)>>), VSlice(<<VStr(<<49>>)>>), VSlice(<<>>), VArray(<<VInt(1)>>),
     VMap(<<VInt(1)>>), VInt(1), Nil}

ContainsCalls ==
    {<<meth, part, full, msgs>> : meth \in {"Contains", "NotContains"}, part \in ContainsParts,
                                  full \in ContainsFulls, msgs \in MsgChoices}

\* the longest string and the longest pattern tried
MaxStrLen == 2
MaxPatLen == 3

\* all strings of at most n characters over the alphabet
RECURSIVE StringsUpTo(_, _)
StringsUpTo(alphabet, n) ==
    IF n = 0 THEN {<<>>}
    ELSE StringsUpTo(alphabet, n - 1) \cup {Append(w, c) : w \in StringsUpTo(alphabet, n - 1), c \in alphabet}

\* Match: strings over a and b against patterns over a, b and '|'
MatchCalls ==
    {<<"Match", VStr(str), VStr(pat), NoMsgs>> :
        str \in StringsUpTo({97, 98}, MaxStrLen), pat \in StringsUpTo({97, 98, Bar}, MaxPatLen)}

\* the UTF-8 bytes of a code point below 65536, and of a text
Utf8(cp) ==
    IF cp < 128 THEN <<cp>>
    ELSE IF cp < 2048 THEN <<192 + (cp \div 64), 128 + (cp % 64)>>
    ELSE <<224 + (cp \div 4096), 128 + ((cp \div 64) % 64), 128 + (cp % 64)>>
RECURSIVE Utf8String(_)
Utf8String(cps) == IF cps = <<>> THEN <<>> ELSE Utf8(Head(cps)) \o Utf8String(Tail(cps))

\* texts over 'a', 'ä' and '€', which take one, two and three bytes
Texts == StringsUpTo({97, 228, 8364}, MaxStrLen)

\* values with a length, and values without
LengthObtained ==
    {VStr(Utf8String(cps)) : cps \in Texts}
        \cup {VSlice(<<>>), VSlice(<<VInt(7)>>), VArray(<<VInt(7), VInt(8)>>), VMap(<<VInt(7)>>),
              [k |-> "chan", v |-> <<VInt(7)>>], VBytes(<<97, 98>>)}
        \cup {VLenable(n) : n \in Nums}
        \cup {VBool(TRUE), VInt(1), Nil}

LengthCalls ==
    {<<"Length", o, VInt(n), NoMsgs>> : o \in LengthObtained, n \in Nums}
        \cup {<<meth, o, Nil, NoMsgs>> : meth \in {"Empty", "NotEmpty"}, o \in LengthObtained}

\* numbers around an expected value, with extents of both signs
AboutCalls ==
    {<<"About", VFloat(o), AboutArgs(VFloat(e), VFloat(t)), NoMsgs>> :
        o \in Nums, e \in Nums, t \in (0 - MaxInt)..MaxInt}

\* functions that return, that panic with a payload, and the nil func
PanicPayloads == {Nil, VStr(<<111>>), VInt(1)}
PanicFuncs == {Func, [k |-> "func()", v |-> <<>>]} \cup UNION {Panicking(p) : p \in PanicPayloads}

PanicCalls ==
    {<<meth, pf, Nil, NoMsgs>> : meth \in {"Panics", "NotPanics"}, pf \in PanicFuncs}
        \cup {<<"PanicsWith", pf, reason, NoMsgs>> : pf \in PanicFuncs, reason \in PanicPayloads}

\* absent and present errors, raw and behind Err(), against two texts
ErrorCalls ==
    {<<meth, x, VStr(<<t>>), NoMsgs>> :
        meth \in {"ErrorMatch", "ErrorContains"},
        x \in {Nil, VError(1), VError(2), VErrable(0), VErrable(1), VErrable(2)},
        t \in {111, 112}}

KernelCalls ==
    RangeCalls \cup ContainsCalls \cup MatchCalls \cup LengthCalls \cup AboutCalls \cup PanicCalls
        \cup ErrorCalls

KernelCall ==
    /\ Started = 0
    /\ \E c \in KernelCalls : Enter(1, c[1], c[2], c[3], c[4])

NextKernel ==
    \/ KernelCall
    \/ Lock(1)
    \/ AppendDetail(1)
    \/ AppendErr(1)
    \/ TestingPrint(1)
    \/ TestingSignal(1)
    \/ Unlock(1)
    \/ PanicPrint(1)
    \/ PanicRaise(1)

\* a collecting, a testing and a panic failer, fresh from their constructors
InitKernel ==
    /\ failer \in {"panic", "validation", "testing"}
    /\ mode = (IF failer = "testing" THEN FailContinue ELSE NoFailing)
    /\ printer = "standard"
    /\ offset = (IF failer = "panic" THEN 0 ELSE InitialOffset)
    /\ mu = 0
    /\ details = <<>>
    /\ errs = <<>>
    /\ out = <<>>
    /\ NoPrints
    /\ NoScopes
    /\ NoAux
    /\ signals = <<>>
    /\ fails = <<>>
    /\ pc = [g \in Procs |-> "idle"]
    /\ cur = [g \in Procs |-> NoCall]
    /\ ret = [g \in Procs |-> "none"]
    /\ raised = [g \in Procs |-> NoFault]
    /\ log = <<>>
    /\ NoSync

SpecKernel == InitKernel /\ [][NextKernel]_vars

-----------------------------------------------------------------------------
\* Call-stack offset: goroutines sharing a validation or testing failer
\* enter helpers that call IncrCallstackOffset, fail assertions inside
\* them, and leave them, running the deferred restore function.

\* IncrCallstackOffset calls in one behaviour
MaxIncrs == 2

Incrs == Len(SelectSeq(offlog, LAMBDA e : e.op = "incr"))

\* IncrCallstackOffset: under the mutex, offset := f.offset; f.offset++;
\* the returned function captures offset
IncrCallstackOffset(g) ==
    /\ pc[g] = "idle"
    /\ Incrs < MaxIncrs
    /\ CanLock(g)
    /\ offset' = offset + 1
    /\ held' = [held EXCEPT ![g] = Append(@, offset)]
    /\ offlog' = Append(offlog, [g |-> g, op |-> "incr", saved |-> offset])
    /\ UNCHANGED <<failable, heldf, targets>>
    /\ UNCHANGED <<auxVars, failer, mode, printer, printVars, mu, details, errs, out, signals, fails, pc, cur, ret, raised, log>>
    /\ UNCHANGED syncVars

\* a restore function that leaves the offset as it is
RestoreKeeping(g) ==
    /\ pc[g] = "idle"
    /\ held[g] # <<>>
    /\ CanLock(g)
    /\ held' = [held EXCEPT ![g] = SubSeq(@, 1, Len(@) - 1)]
    /\ offlog' = Append(offlog, [g |-> g, op |-> "restore", saved |-> held[g][Len(held[g])]])
    /\ UNCHANGED <<offset, failable, heldf, targets>>
    /\ UNCHANGED <<auxVars, failer, mode, printer, printVars, mu, details, errs, out, signals, fails, pc, cur, ret, raised, log>>
    /\ UNCHANGED syncVars

\* the function IncrCallstackOffset returned, deferred by the helper:
\* under the mutex, f.offset = offset
Restore(g) ==
    /\ pc[g] = "idle"
    /\ held[g] # <<>>
    /\ CanLock(g)
    /\ offset' = held[g][Len(held[g])]
    /\ held' = [held EXCEPT ![g] = SubSeq(@, 1, Len(@) - 1)]
    /\ offlog' = Append(offlog, [g |-> g, op |-> "restore", saved |-> held[g][Len(held[g])]])
    /\ UNCHANGED <<failable, heldf, targets>>
    /\ UNCHANGED <<auxVars, failer, mode, printer, printVars, mu, details, errs, out, signals, fails, pc, cur, ret, raised, log>>
    /\ UNCHANGED syncVars

\* the assertions made inside and outside the helpers
OffsetCalls == {<<"Fail", Nil, Nil, SomeMsgs>>, <<"True", VBool(TRUE), Nil, NoMsgs>>}

OffsetCall(g) ==
    /\ Started < MaxCalls
    /\ \E c \in OffsetCalls : Enter(g, c[1], c[2], c[3], c[4])

NextOffset ==
    \E g \in Procs :
        \/ IncrCallstackOffset(g)
        \/ Restore(g)
        \/ OffsetCall(g)
        \/ Lock(g)
        \/ AppendDetail(g)
        \/ AppendErr(g)
        \/ TestingPrint(g)
        \/ TestingSignal(g)
        \/ Unlock(g)

InitOffset ==
    /\ failer \in {"validation", "testing"}
    /\ mode = (IF failer = "testing" THEN FailContinue ELSE NoFailing)
    /\ printer = "standard"
    /\ offset = InitialOffset
    /\ mu = 0
    /\ details = <<>>
    /\ errs = <<>>
    /\ out = <<>>
    /\ NoPrints
    /\ NoScopes
    /\ NoAux
    /\ signals = <<>>
    /\ fails = <<>>
    /\ pc = [g \in Procs |-> "idle"]
    /\ cur = [g \in Procs |-> NoCall]
    /\ ret = [g \in Procs |-> "none"]
    /\ raised = [g \in Procs |-> NoFault]
    /\ log = <<>>
    /\ NoSync

SpecOffset == InitOffset /\ [][NextOffset]_vars

-----------------------------------------------------------------------------
\* Failables: goroutines sharing a failer run sub-tests, binding the
\* sub-test's Failable with SetFailable, failing assertions, and calling
\* the restorer when the sub-test ends.

\* the Failables of the sub-tests
NumSubTests == 2
SubTests == 1..NumSubTests

\* SetFailable calls in one behaviour
MaxBinds == 2

Binds == Len(SelectSeq(offlog, LAMBDA e : e.op = "bind"))

\* Asserts.SetFailable, first half: not a testing failer: return func() {};
\* else old := tf.failable. No mutex is taken.
SetFailable(g, f) ==
    /\ pc[g] = "idle"
    /\ Binds < MaxBinds
    /\ heldf' = [heldf EXCEPT ![g] = Append(@, [old |-> failable, new |-> f, noop |-> failer # "testing"])]
    /\ offlog' = Append(offlog, [g |-> g, op |-> "bind", saved |-> failable])
    /\ pc' = [pc EXCEPT ![g] = IF failer = "testing" THEN "sf_write" ELSE "idle"]
    /\ UNCHANGED <<held, failable, targets>>
    /\ UNCHANGED <<auxVars, failer, mode, printer, printVars, offset, mu, details, errs, out, signals, fails, cur, ret, raised, log>>
    /\ UNCHANGED syncVars

\* Asserts.SetFailable, second half: tf.failable = f
SetFailableWrite(g) ==
    /\ pc[g] = "sf_write"
    /\ failable' = heldf[g][Len(heldf[g])].new
    /\ pc' = [pc EXCEPT ![g] = "idle"]
    /\ UNCHANGED <<held, offlog, heldf, targets>>
    /\ UNCHANGED <<auxVars, failer, mode, printer, printVars, offset, mu, details, errs, out, signals, fails, cur, ret, raised, log>>
    /\ UNCHANGED syncVars

\* a restorer that binds the failer's first Failable
RestoreFailableFirst(g) ==
    /\ pc[g] = "idle"
    /\ heldf[g] # <<>>
    /\ LET top == heldf[g][Len(heldf[g])]
       IN  /\ failable' = IF top.noop THEN failable ELSE FirstFailable
           /\ offlog' = Append(offlog, [g |-> g, op |-> "rebind", saved |-> top.old])
    /\ heldf' = [heldf EXCEPT ![g] = SubSeq(@, 1, Len(@) - 1)]
    /\ UNCHANGED <<held, targets>>
    /\ UNCHANGED <<auxVars, failer, mode, printer, printVars, offset, mu, details, errs, out, signals, fails, pc, cur, ret, raised, log>>
    /\ UNCHANGED syncVars

\* the function SetFailable returned, deferred by the sub-test:
\* tf.failable = old, or nothing for another failer. No mutex is taken.
RestoreFailable(g) ==
    /\ pc[g] = "idle"
    /\ heldf[g] # <<>>
    /\ LET top == heldf[g][Len(heldf[g])]
       IN  /\ failable' = IF top.noop THEN failable ELSE top.old
           /\ offlog' = Append(offlog, [g |-> g, op |-> "rebind", saved |-> top.old])
    /\ heldf' = [heldf EXCEPT ![g] = SubSeq(@, 1, Len(@) - 1)]
    /\ UNCHANGED <<held, targets>>
    /\ UNCHANGED <<auxVars, failer, mode, printer, printVars, offset, mu, details, errs, out, signals, fails, pc, cur, ret, raised, log>>
    /\ UNCHANGED syncVars

\* the assertion a sub-test fails
FailableCall(g) ==
    /\ Started < MaxCalls
    /\ Enter(g, "True", VBool(FALSE), Nil, NoMsgs)

NextFailable ==
    \E g \in Procs :
        \/ \E f \in SubTests : SetFailable(g, f)
        \/ SetFailableWrite(g)
        \/ RestoreFailable(g)
        \/ FailableCall(g)
        \/ Lock(g)
        \/ AppendDetail(g)
        \/ AppendErr(g)
        \/ TestingPrint(g)
        \/ TestingSignal(g)
        \/ Unlock(g)
        \/ PanicPrint(g)
        \/ PanicRaise(g)

InitFailable ==
    /\ failer \in {"panic", "validation", "testing"}
    /\ mode = (IF failer = "testing" THEN FailContinue ELSE NoFailing)
    /\ printer = "standard"
    /\ offset = (IF failer = "panic" THEN 0 ELSE InitialOffset)
    /\ mu = 0
    /\ details = <<>>
    /\ errs = <<>>
    /\ out = <<>>
    /\ NoPrints
    /\ NoScopes
    /\ NoAux
    /\ signals = <<>>
    /\ fails = <<>>
    /\ pc = [g \in Procs |-> "idle"]
    /\ cur = [g \in Procs |-> NoCall]
    /\ ret = [g \in Procs |-> "none"]
    /\ raised = [g \in Procs |-> NoFault]
    /\ log = <<>>
    /\ NoSync

SpecFailable == InitFailable /\ [][NextFailable]_vars

-----------------------------------------------------------------------------
\* Printers: one test goroutine swaps the failer's printer for a buffered
\* one and back, logs, fails assertions and flushes the buffered printer.

\* operations of the test in one behaviour
MaxPrints == 5

\* the lines Logf sent to the printer
LogLines == SelectSeq(out, LAMBDA l : l.text.test = "Logf")

\* the operations the test has started so far
Prints == Started + Len(LogLines) + Len(old) + Len(flushed)

\* the goroutine's stack while runtime.Callers runs inside here(), called
\* by the failer's Logf
LogStack(g, line) ==
    <<LibFrame("extern.go", "Callers"), LibFrame("failer.go", "here"), LibFrame("failer.go", "Logf"),
      LibFrame("asserts.go", "Logf"), TestFrame(g, line), [file |-> "testing.go", line |-> 0, fn |-> "tRunner"]>>

\* the format the failer's Logf hands to the printer: prefix+format+"\n",
\* the prefix naming the location; the panic failer adds no prefix
LogLine(g, format) ==
    [loc |-> IF failer = "panic" THEN NoLoc ELSE here(LogStack(g, Prints + 1), offset),
     test |-> "Logf",
     body |-> [form |-> format, ob |-> Nil, ex |-> Nil],
     msgs |-> <<>>]

\* Asserts.SetPrinter: the failer swaps its printer, under its mutex if it
\* has one, and returns the old one
SetPrinter(g, p) ==
    /\ pc[g] = "idle"
    /\ failer = "panic" \/ CanLock(g)
    /\ old' = Append(old, printer)
    /\ printer' = p
    /\ UNCHANGED <<buffer, flushed>>
    /\ UNCHANGED <<auxVars, failer, scopeVars, mode, offset, mu, details, errs, out, signals, fails, pc, cur, ret, raised, log>>
    /\ UNCHANGED syncVars

\* Asserts.Logf: the failer's Logf, under its mutex if it has one
Logf(g, format) ==
    /\ pc[g] = "idle"
    /\ failer = "panic" \/ CanLock(g)
    /\ Output("log", LogLine(g, format))
    /\ UNCHANGED <<auxVars, failer, scopeVars, mode, printer, offset, mu, details, errs, signals, fails, pc, cur, ret, raised, log>>
    /\ UNCHANGED syncVars

\* a Flush that leaves the buffer as it is
FlushKeeping(g) ==
    /\ pc[g] \in {"idle", "dead"}
    /\ flushed' = Append(flushed, buffer)
    /\ UNCHANGED <<buffer, old>>
    /\ UNCHANGED <<auxVars, failer, scopeVars, mode, printer, offset, mu, details, errs, out, signals, fails, pc, cur, ret, raised, log>>
    /\ UNCHANGED syncVars

\* bufferedPrinter.Flush, called by the test between two facade calls or
\* after a panic of the panic failer unwound it: b := p.buffer;
\* p.buffer = nil; return b
Flush(g) ==
    /\ pc[g] \in {"idle", "dead"}
    /\ flushed' = Append(flushed, buffer)
    /\ buffer' = <<>>
    /\ UNCHANGED old
    /\ UNCHANGED <<auxVars, failer, scopeVars, mode, printer, offset, mu, details, errs, out, signals, fails, pc, cur, ret, raised, log>>
    /\ UNCHANGED syncVars

\* the printers the test binds: the buffered one, or a standard one again
Printers == {"standard", "buffered"}

\* the formats the test logs
LogFormats == {"first"}

\* a passing and a failing facade call
PrinterCalls == {<<"True", VBool(b), Nil, NoMsgs>> : b \in BOOLEAN}

PrinterOp ==
    /\ Prints < MaxPrints
    /\ \/ \E p \in Printers : SetPrinter(1, p)
       \/ \E format \in LogFormats : Logf(1, format)
       \/ Flush(1)
       \/ \E c \in PrinterCalls : Enter(1, c[1], c[2], c[3], c[4])

NextPrinter ==
    \/ PrinterOp
    \/ Lock(1)
    \/ AppendDetail(1)
    \/ AppendErr(1)
    \/ TestingPrint(1)
    \/ TestingSignal(1)
    \/ Unlock(1)
    \/ PanicPrint(1)
    \/ PanicRaise(1)

InitPrinter ==
    /\ failer \in {"panic", "validation", "testing"}
    /\ mode \in (IF failer = "testing" THEN FailModes ELSE {NoFailing})
    /\ printer = "standard"
    /\ offset = (IF failer = "panic" THEN 0 ELSE InitialOffset)
    /\ mu = 0
    /\ details = <<>>
    /\ errs = <<>>
    /\ out = <<>>
    /\ NoPrints
    /\ NoScopes
    /\ NoAux
    /\ signals = <<>>
    /\ fails = <<>>
    /\ pc = [g \in Procs |-> "idle"]
    /\ cur = [g \in Procs |-> NoCall]
    /\ ret = [g \in Procs |-> "none"]
    /\ raised = [g \in Procs |-> NoFault]
    /\ log = <<>>
    /\ NoSync

SpecPrinter == InitPrinter /\ [][NextPrinter]_vars

-----------------------------------------------------------------------------
\* The waiting assertions: Wait, WaitClosed, WaitGroup and Retry, called once
\* by goroutine 1 while the test's other goroutines send on or close the
\* signal channel and finish the wait group.  The clock starts at 0 when the
\* call starts; a timer of duration d can fire once the clock shows d.

\* the longest timeout, the most values sent, the largest wait group
\* counter, the most retries and the longest pause tried
MaxTimeout == 1
MaxSends == 2
MaxWg == 1
MaxRetries == 2
MaxPause == 1

\* the clock stops one tick after the longest timeout
MaxTime == MaxTimeout + 1

\* MakeWaitChan: make(chan any, 1)
WaitChanCap == 1

SyncOps == {"Wait", "WaitClosed", "WaitGroup", "Retry"}

\* the signals the test sends
SigVals == {VBool(TRUE), VInt(1)}

\* "timeout " + timeout.String()
TimeoutText(d) == VStr(<<116, d>>)
\* the literal put in place of the expected value, by assertion: "signal
\* true", "closed", "done", "signal tested", "successful call"
ExpectedText(o) ==
    CASE o = "Wait" -> VStr(<<115>>)
      [] o = "WaitClosed" -> VStr(<<99>>)
      [] o = "WaitGroup" -> VStr(<<100>>)
      [] o = "WaitTested" -> VStr(<<115, 116>>)
      [] OTHER -> VStr(<<114>>)
\* fmt.Sprintf("timeout after %v and %d retries", needed, retries)
RetryInfo(needed, n) == VStr(<<97, needed, n>>)

failerVars == <<failer, scopeVars, mode, printer, printVars, offset, mu, details, errs, out, signals>>
paramVars == <<op, timeout, want, retries, pause>>
chanVars == <<sigc, closedAt, sends>>
groupVars == <<wg, helper, stopc, spawned>>
retryVars == <<rloop, rfcalls>>

\* the configurations a waiting assertion is called in
InitSync ==
    /\ failer \in {"panic", "validation", "testing"}
    /\ mode = (IF failer = "testing" THEN FailContinue ELSE NoFailing)
    /\ printer = "standard"
    /\ offset = (IF failer = "panic" THEN 0 ELSE InitialOffset)
    /\ mu = 0
    /\ details = <<>>
    /\ errs = <<>>
    /\ out = <<>>
    /\ NoPrints
    /\ NoScopes
    /\ NoAux
    /\ signals = <<>>
    /\ fails = <<>>
    /\ pc = [g \in Procs |-> "idle"]
    /\ cur = [g \in Procs |-> NoCall]
    /\ ret = [g \in Procs |-> "none"]
    /\ raised = [g \in Procs |-> NoFault]
    /\ log = <<>>
    /\ op \in SyncOps
    /\ timeout \in (IF op = "Retry" THEN {0} ELSE 0..MaxTimeout)
    /\ want \in (IF op = "Wait" THEN {VBool(TRUE), Nil} ELSE {Nil})
    /\ now = 0
    /\ sigc = <<>>
    /\ closedAt = -1
    /\ sends = 0
    /\ spc = "start"
    /\ timer = "idle"
    /\ recvd = <<>>
    /\ wg \in (IF op = "WaitGroup" THEN 0..MaxWg ELSE {0})
    /\ helper = "none"
    /\ stopc = 0
    /\ spawned = 0
    /\ retries \in (IF op = "Retry" THEN (-1)..MaxRetries ELSE {0})
    /\ pause \in (IF op = "Retry" THEN 0..MaxPause ELSE {0})
    /\ rloop = 0
    /\ rfcalls = <<>>
    /\ tested = <<>>

\* what a receive on sigc yielded: the value, the ok flag and the time
Received(v, ok) == [v |-> v, ok |-> ok, at |-> now]

SyncCall(verdict, ob, ex) ==
    [m |-> op, x |-> ob, y |-> ex, verdict |-> verdict, test |-> op, ob |-> ob, ex |-> ex,
     msgs |-> NoMsgs, frames |-> <<op>>, line |-> 1, text |-> NoMessage]

\* return true; the deferred done.Stop() of WaitClosed and WaitGroup runs
ReturnTrue(ob, ex) ==
    /\ ret' = [ret EXCEPT ![1] = "true"]
    /\ log' = Append(log, Logged(1, SyncCall("pass", ob, ex), "true"))
    /\ spc' = "done"
    /\ timer' = (IF op \in {"WaitClosed", "WaitGroup"} /\ timer = "armed" THEN "stopped" ELSE timer)
    /\ UNCHANGED <<auxVars, failerVars, fails, pc, cur, raised>>

\* return a.failer.Fail(op, ob, ex, msgs...): the call enters the failer
FailCall(ob, ex) ==
    /\ pc' = [pc EXCEPT ![1] = "Fail"]
    /\ cur' = [cur EXCEPT ![1] = SyncCall("fail", ob, ex)]
    /\ fails' = Append(fails, [g |-> 1, test |-> op, ob |-> ob, ex |-> ex, msgs |-> NoMsgs])
    /\ spc' = "failing"
    /\ UNCHANGED <<auxVars, failerVars, ret, raised, log, timer>>

\* the test sends v on sigc: handed to the caller if it is parked in its
\* select, buffered otherwise
Send(v) ==
    /\ op \in {"Wait", "WaitClosed", "WaitTested"}
    /\ spc \notin {"failing", "done"}
    /\ closedAt = -1
    /\ sends < MaxSends
    /\ sends' = sends + 1
    /\ IF spc = "parked"
       THEN /\ recvd' = Append(recvd, Received(v, TRUE))
            /\ spc' = "got"
            /\ sigc' = sigc
       ELSE /\ Len(sigc) < WaitChanCap
            /\ sigc' = Append(sigc, v)
            /\ UNCHANGED <<recvd, spc>>
    /\ UNCHANGED <<auxVars, coreVars, paramVars, now, closedAt, timer, groupVars, retryVars, tested>>

\* the test closes sigc: a caller parked in its select receives (nil, false)
Close ==
    /\ op \in {"Wait", "WaitClosed", "WaitTested"}
    /\ spc \notin {"failing", "done"}
    /\ closedAt = -1
    /\ closedAt' = now
    /\ IF spc = "parked"
       THEN /\ recvd' = Append(recvd, Received(Nil, FALSE))
            /\ spc' = "got"
       ELSE UNCHANGED <<recvd, spc>>
    /\ UNCHANGED <<auxVars, coreVars, paramVars, now, sigc, sends, timer, groupVars, retryVars, tested>>

\* a goroutine of the test calls wg.Done()
WgDone ==
    /\ op = "WaitGroup"
    /\ wg > 0
    /\ wg' = wg - 1
    /\ UNCHANGED <<auxVars, coreVars, paramVars, now, chanVars, spc, timer, recvd, helper, stopc, spawned, retryVars, tested>>

\* time passes while the call runs
Tick ==
    /\ spc \notin {"start", "failing", "done"}
    /\ now < MaxTime
    /\ now' = now + 1
    /\ UNCHANGED <<auxVars, coreVars, paramVars, chanVars, spc, timer, recvd, groupVars, retryVars, tested>>

\* the timer's channel delivers: a caller parked in its select takes the
\* timer case
TimerFire ==
    /\ timer = "armed"
    /\ now >= timeout
    /\ timer' = "fired"
    /\ spc' = (IF spc = "parked" THEN "timedout" ELSE spc)
    /\ UNCHANGED <<auxVars, coreVars, paramVars, now, chanVars, recvd, groupVars, retryVars, tested>>

\* the call starts: time.After(timeout) / time.NewTimer(timeout); WaitGroup
\* makes stopc and starts its helper goroutine
StartCall ==
    /\ spc = "start"
    /\ IF op = "Retry"
       THEN /\ spc' = "loop"
            /\ UNCHANGED <<timer, helper, spawned>>
       ELSE /\ spc' = "select"
            /\ timer' = "armed"
            /\ helper' = (IF op = "WaitGroup" THEN "wait" ELSE helper)
            /\ spawned' = (IF op = "WaitGroup" THEN spawned + 1 ELSE spawned)
    /\ UNCHANGED <<auxVars, coreVars, paramVars, now, chanVars, recvd, wg, stopc, retryVars, tested>>

\* a receive on sigc can proceed: a value is buffered or the channel is closed
RecvReady ==
    IF op = "WaitGroup" THEN stopc > 0 ELSE sigc # <<>> \/ closedAt # -1

\* select: one of the ready cases is taken, whichever; with none ready the
\* goroutine parks until a send, a close or the timer wakes it
Select ==
    /\ spc = "select"
    /\ \/ /\ RecvReady
          /\ spc' = "got"
          /\ IF op = "WaitGroup"
             THEN /\ stopc' = stopc - 1
                  /\ UNCHANGED <<recvd, sigc>>
             ELSE /\ stopc' = stopc
                  /\ IF sigc # <<>>
                     THEN /\ recvd' = Append(recvd, Received(Head(sigc), TRUE))
                          /\ sigc' = Tail(sigc)
                     ELSE /\ recvd' = Append(recvd, Received(Nil, FALSE))
                          /\ sigc' = sigc
       \/ /\ timer = "fired"
          /\ spc' = "timedout"
          /\ UNCHANGED <<recvd, sigc, stopc>>
       \/ /\ ~RecvReady
          /\ timer # "fired"
          /\ spc' = "parked"
          /\ UNCHANGED <<recvd, sigc, stopc>>
    /\ UNCHANGED <<auxVars, coreVars, paramVars, now, closedAt, sends, timer, wg, helper, spawned, retryVars, tested>>

\* a Wait that takes any received value for the expected one
WaitCompareUnchecked ==
    /\ op = "Wait"
    /\ spc = "got"
    /\ ReturnTrue(recvd[Len(recvd)].v, want)
    /\ UNCHANGED <<paramVars, now, chanVars, recvd, groupVars, retryVars, tested>>

\* Wait, case obtained := <-sigc: isEqual(obtained, expected)
WaitCompare ==
    /\ op = "Wait"
    /\ spc = "got"
    /\ LET obtained == recvd[Len(recvd)].v
       IN  IF ~isEqual(obtained, want) THEN FailCall(obtained, want) ELSE ReturnTrue(obtained, want)
    /\ UNCHANGED <<paramVars, now, chanVars, recvd, groupVars, retryVars, tested>>

\* a WaitClosed that returns true on any receive
ClosedCheckAnyReceive ==
    /\ op = "WaitClosed"
    /\ spc = "got"
    /\ ReturnTrue(Nil, Nil)
    /\ UNCHANGED <<paramVars, now, chanVars, recvd, groupVars, retryVars, tested>>

\* WaitClosed, case _, ok := <-sigc: return true if !ok, else loop
ClosedCheck ==
    /\ op = "WaitClosed"
    /\ spc = "got"
    /\ IF ~recvd[Len(recvd)].ok
       THEN ReturnTrue(Nil, Nil)
       ELSE /\ spc' = "select"
            /\ UNCHANGED <<auxVars, coreVars, timer>>
    /\ UNCHANGED <<paramVars, now, chanVars, recvd, groupVars, retryVars, tested>>

\* WaitGroup, case <-stopc: return true
GroupDone ==
    /\ op = "WaitGroup"
    /\ spc = "got"
    /\ ReturnTrue(Nil, Nil)
    /\ UNCHANGED <<paramVars, now, chanVars, recvd, groupVars, retryVars, tested>>

\* case <-time.After(timeout) / case <-done.C: Fail with the timeout text
Timeout ==
    /\ spc = "timedout"
    /\ FailCall(TimeoutText(timeout), ExpectedText(op))
    /\ UNCHANGED <<paramVars, now, chanVars, recvd, groupVars, retryVars, tested>>

\* a helper that signals without waiting for the group
HelperNoWait ==
    /\ helper = "wait"
    /\ helper' = "send"
    /\ UNCHANGED <<auxVars, coreVars, paramVars, now, chanVars, spc, timer, recvd, wg, stopc, spawned, retryVars, tested>>

\* WaitGroup's helper: wg.Wait() returns once the counter is zero
HelperWait ==
    /\ helper = "wait"
    /\ wg = 0
    /\ helper' = "send"
    /\ UNCHANGED <<auxVars, coreVars, paramVars, now, chanVars, spc, timer, recvd, wg, stopc, spawned, retryVars, tested>>

\* a helper sending on an unbuffered stopc: only a parked caller takes it
HelperSendUnbuffered ==
    /\ helper = "send"
    /\ spc = "parked"
    /\ spc' = "got"
    /\ helper' = "exit"
    /\ UNCHANGED <<auxVars, coreVars, paramVars, now, chanVars, timer, recvd, wg, stopc, spawned, retryVars, tested>>

\* WaitGroup's helper: stopc <- struct{}{}, handed to a parked caller or
\* buffered (stopc has capacity 1); the goroutine ends
HelperSend ==
    /\ helper = "send"
    /\ IF spc = "parked"
       THEN /\ spc' = "got"
            /\ stopc' = stopc
       ELSE /\ stopc < 1
            /\ stopc' = stopc + 1
            /\ spc' = spc
    /\ helper' = "exit"
    /\ UNCHANGED <<auxVars, coreVars, paramVars, now, chanVars, timer, recvd, wg, spawned, retryVars, tested>>

\* a Retry loop running while r <= retries
RetryCallOneMore(b) ==
    /\ op = "Retry"
    /\ spc = "loop"
    /\ rloop <= retries
    /\ rfcalls' = Append(rfcalls, b)
    /\ IF b
       THEN ReturnTrue(Nil, Nil)
       ELSE /\ spc' = "sleep"
            /\ UNCHANGED <<auxVars, coreVars, timer>>
    /\ UNCHANGED <<paramVars, now, chanVars, recvd, groupVars, rloop, tested>>

\* Retry: r < retries and rf() is called; true returns, false goes to the pause
RetryCall(b) ==
    /\ op = "Retry"
    /\ spc = "loop"
    /\ rloop < retries
    /\ rfcalls' = Append(rfcalls, b)
    /\ IF b
       THEN ReturnTrue(Nil, Nil)
       ELSE /\ spc' = "sleep"
            /\ UNCHANGED <<auxVars, coreVars, timer>>
    /\ UNCHANGED <<paramVars, now, chanVars, recvd, groupVars, rloop, tested>>

\* Retry: time.Sleep(pause); r++
RetrySleep ==
    /\ op = "Retry"
    /\ spc = "sleep"
    /\ now' = now + pause
    /\ rloop' = rloop + 1
    /\ spc' = "loop"
    /\ UNCHANGED <<auxVars, coreVars, paramVars, chanVars, timer, recvd, groupVars, rfcalls, tested>>

\* Retry: the loop is over without a true; Fail with the time needed and
\* the number of retries
RetryExhausted ==
    /\ op = "Retry"
    /\ spc = "loop"
    /\ ~(rloop < retries)
    /\ FailCall(RetryInfo(now, retries), ExpectedText(op))
    /\ UNCHANGED <<paramVars, now, chanVars, recvd, groupVars, retryVars, tested>>

\* Fail has returned false or panicked: the call is over, the deferred
\* done.Stop() of WaitClosed and WaitGroup runs
FailReturned ==
    /\ spc = "failing"
    /\ pc[1] \in {"idle", "dead"}
    /\ spc' = "done"
    /\ timer' = (IF op \in {"WaitClosed", "WaitGroup"} /\ timer = "armed" THEN "stopped" ELSE timer)
    /\ UNCHANGED <<auxVars, coreVars, paramVars, now, chanVars, recvd, groupVars, retryVars, tested>>

\* the steps of the calling goroutine
CallerStep ==
    \/ StartCall
    \/ Select
    \/ WaitCompare
    \/ ClosedCheck
    \/ GroupDone
    \/ Timeout
    \/ \E b \in BOOLEAN : RetryCall(b)
    \/ RetrySleep
    \/ RetryExhausted
    \/ FailReturned
    \/ Lock(1)
    \/ AppendDetail(1)
    \/ AppendErr(1)
    \/ TestingPrint(1)
    \/ TestingSignal(1)
    \/ Unlock(1)
    \/ PanicPrint(1)
    \/ PanicRaise(1)

NextSync ==
    \/ CallerStep
    \/ \E v \in SigVals : Send(v)
    \/ Close
    \/ WgDone
    \/ Tick
    \/ TimerFire
    \/ HelperWait
    \/ HelperSend

SpecSync == InitSync /\ [][NextSync]_vars

\* the scheduler runs every goroutine that can run, time passes and a due
\* timer fires
SpecSyncFair ==
    /\ SpecSync
    /\ WF_vars(CallerStep)
    /\ WF_vars(Tick)
    /\ WF_vars(TimerFire)
    /\ WF_vars(HelperWait)
    /\ WF_vars(HelperSend)

\* what the waiting assertion returned to its caller
SyncResult == IF spc = "done" THEN ret[1] ELSE "none"

-----------------------------------------------------------------------------
\* Read-only view of the collecting failer (Failures).

HasErrors == Len(errs) > 0
Details == details
Errors == errs

\* the completed calls whose assertion did not hold, in order of completion
Failed == SelectSeq(log, LAMBDA e : e.verdict = "fail")

\* the completed calls of goroutine g
CallsOf(g) == SelectSeq(log, LAMBDA e : e.g = g)

-----------------------------------------------------------------------------
\* Claims.

\* C1: on the collecting failer, whenever no Fail is in progress, HasErrors()
\* is true iff some completed call failed, Details() and Errors() hold one
\* entry per failed call and none for passing calls, in the order the failures
\* were recorded, each with the kind of its failing assertion and entry i of
\* Errors() being the error of entry i of Details(); every failed call
\* returned false and its goroutine goes on.
C1_CollectingRecordsEachFailure ==
    failer = "validation" =>
        /\ \A i \in 1..Len(log) :
                /\ log[i].verdict = "fail" => log[i].ret = "false"
                /\ log[i].verdict = "pass" => log[i].ret = "true"
        /\ \A g \in Procs : pc[g] # "dead"
        /\ mu = 0 =>
                /\ HasErrors <=> (Failed # <<>>)
                /\ Len(Details) = Len(Failed)
                /\ Len(Errors) = Len(Failed)
                /\ \A i \in 1..Len(Failed) :
                        /\ Details[i].test = Failed[i].test
                        /\ Failed[i].m \notin {"OK", "NotOK"} => Details[i].test = Failed[i].m
                        /\ Details[i].location.line \in {0, Failed[i].line}
                        /\ Errors[i] = Details[i].err
                        /\ Errors[i].test = Failed[i].test

\* C1 witness: two goroutines each recorded one failure, True(false) first
\* and Equal(1, 2) second.
C1_Witness ==
    /\ failer = "validation"
    /\ mu = 0
    /\ Len(Failed) = 2
    /\ Failed[1].g # Failed[2].g
    /\ Details[1].test = "True"
    /\ Details[2].test = "Equal"
    /\ HasErrors

\* the failer is as its constructor left it and has printed and signalled nothing
FailerUntouched ==
    /\ details = <<>>
    /\ errs = <<>>
    /\ out = <<>>
    /\ signals = <<>>
    /\ mu = 0
    /\ offset = (IF failer = "panic" THEN 0 ELSE InitialOffset)

LinesAt(level) == SelectSeq(out, LAMBDA l : l.level = level)

\* the fail signals of the given kind the Failable received
SignalsOf(kind) == SelectSeq(signals, LAMBDA s : s = kind)

\* goroutines that have printed the line of their failure and not yet returned
Printed == {g \in Procs : pc[g] \in {"t_signal", "unlock"}}

\* goroutines that have signalled the Failable and not yet returned
Signalled == {g \in Procs : pc[g] = "unlock"}

C3_State ==
    failer = "testing" =>
        /\ \A i \in 1..Len(log) : log[i].verdict = "fail" => log[i].ret = "false"
        /\ Len(out) = Len(Failed) + Cardinality(Printed)
        /\ mode = NoFailing =>
                /\ LinesAt("log") = out
                /\ signals = <<>>
        /\ mode = FailContinue =>
                /\ LinesAt("err") = out
                /\ SignalsOf("Fail") = signals
                /\ Len(signals) = Len(Failed) + Cardinality(Signalled)
        /\ mode = FailStop =>
                /\ LinesAt("err") = out
                /\ SignalsOf("FailNow") = signals
                /\ Len(signals) = Len(Failed) + Cardinality(Signalled)

\* C3: on the testing failer every failure writes exactly one line, a log
\* line in mode NoFailing and an error line otherwise; NoFailing signals
\* nothing, FailContinue calls Failable.Fail once per failure after the line
\* and never FailNow, FailStop calls Failable.FailNow once per failure after
\* the line and never Fail; Fail returns false; the mode never changes.
C3_TestingModes == [](C3_State) /\ [][mode' = mode]_vars

\* C3 witness: in mode FailStop one failure has written its error line and
\* called FailNow, and the call has returned.
C3_Witness ==
    /\ failer = "testing"
    /\ mode = FailStop
    /\ Len(Failed) = 1
    /\ Len(out) = 1
    /\ signals = <<"FailNow">>
    /\ mu = 0

\* C4: on the panic failer every failed assertion has written its formatted
\* message to the printer as an error and then raised a fault whose payload
\* is that same message, the one built from the arguments Fail received;
\* Fail never returns, so the goroutine runs nothing after the failing
\* call; passing assertions return true and raise nothing.
C4_PanicFailerRaises ==
    failer = "panic" =>
        /\ \A i \in 1..Len(log) :
                /\ log[i].verdict = "fail" =>
                        /\ log[i].ret = "panic"
                        /\ pc[log[i].g] = "dead"
                        /\ raised[log[i].g].by = "failer"
                        /\ CallsOf(log[i].g)[Len(CallsOf(log[i].g))] = log[i]
                /\ log[i].verdict = "pass" => log[i].ret = "true"
        /\ \A g \in Procs :
                /\ pc[g] = "idle" => raised[g] = NoFault
                /\ raised[g].by = "failer" =>
                        \E i \in 1..Len(out), j \in 1..Len(fails) :
                            /\ out[i].level = "err"
                            /\ out[i].text = raised[g].msg
                            /\ fails[j].g = g
                            /\ raised[g].msg =
                                    failString(fails[j].test,
                                               obexString(fails[j].test, fails[j].ob, fails[j].ex),
                                               fails[j].msgs)
        /\ Len(out) = Len(Failed) + Cardinality({g \in Procs : pc[g] = "p_panic"})

\* C4 witness: one goroutine was ended by a failed assertion after another
\* passed one.
C4_Witness ==
    /\ failer = "panic"
    /\ \E g, h \in Procs :
            /\ raised[g].by = "failer"
            /\ pc[g] = "dead"
            /\ ret[h] = "true"
            /\ pc[h] = "idle"

\* C5: with a collecting or testing failer no facade call unwinds its
\* caller, whatever its arguments: every call ends in a true or false return.
C5_NoFaultOutsidePanicFailer ==
    failer \in {"validation", "testing"} =>
        /\ \A g \in Procs : raised[g] = NoFault /\ pc[g] # "dead"
        /\ \A i \in 1..Len(log) : log[i].ret \in {"true", "false"}

\* the locations the failer has resolved so far
Locations ==
    {details[i].location : i \in 1..Len(details)} \cup {out[i].text.loc : i \in 1..Len(out)}

\* C6: on a collecting or testing failer the location of every failure is a
\* frame of the test code, never one of the assertion library, whichever
\* facade method was called.
C6_LocationOutsideLibrary ==
    failer \in {"validation", "testing"} =>
        \A l \in Locations : l.file \notin LibFiles /\ l.file = "asserts_test.go"

\* the call is over: it returned or the failer's panic unwound it
CallOver == spc = "done"

\* the one Fail call of the waiting assertion reports a timeout, made
\* after the timer fired, which it cannot before the timeout has elapsed
OneTimeoutFail ==
    /\ Len(fails) = 1
    /\ fails[1].test = op
    /\ fails[1].ob = TimeoutText(timeout)
    /\ fails[1].ex = ExpectedText(op)
    /\ timer = "fired"
    /\ now >= timeout

C7_State ==
    op = "Wait" =>
        /\ Len(recvd) <= 1
        /\ Len(fails) <= 1
        /\ spc = "timedout" => timer = "fired" /\ recvd = <<>>
        /\ spc = "parked" => sigc = <<>> /\ closedAt = -1 /\ timer # "fired"
        /\ SyncResult = "true" => Len(recvd) = 1 /\ isEqual(recvd[1].v, want) /\ fails = <<>>
        /\ fails # <<>> =>
                \/ /\ Len(recvd) = 1
                   /\ ~isEqual(recvd[1].v, want)
                   /\ fails[1] = [g |-> 1, test |-> "Wait", ob |-> recvd[1].v, ex |-> want, msgs |-> NoMsgs]
                   /\ fails[1].ob # TimeoutText(timeout)
                \/ /\ recvd = <<>>
                   /\ OneTimeoutFail
        /\ CallOver =>
                /\ recvd = <<>> => OneTimeoutFail
                /\ Len(recvd) = 1 /\ ~isEqual(recvd[1].v, want) => Len(fails) = 1
                /\ fails = <<>> <=> SyncResult = "true"
                /\ failer # "panic" /\ fails # <<>> => SyncResult = "false"

C8_State ==
    op = "WaitClosed" =>
        /\ Len(fails) <= 1
        /\ \A i \in 1..(Len(recvd) - 1) : recvd[i].ok
        /\ \A i \in 1..Len(recvd) : ~recvd[i].ok => closedAt # -1 /\ closedAt <= recvd[i].at
        /\ spc = "timedout" => timer = "fired"
        /\ spc = "parked" => sigc = <<>> /\ closedAt = -1 /\ timer # "fired"
        /\ SyncResult = "true" => recvd # <<>> /\ ~recvd[Len(recvd)].ok /\ fails = <<>>
        /\ fails # <<>> => OneTimeoutFail /\ \A i \in 1..Len(recvd) : recvd[i].ok
        /\ (\A i \in 1..Len(recvd) : recvd[i].ok) => SyncResult # "true"
        /\ (\A i \in 1..Len(recvd) : recvd[i].ok) /\ spc \notin {"timedout", "failing", "done"} => fails = <<>>
        /\ CallOver =>
                /\ fails = <<>> <=> SyncResult = "true"
                /\ failer # "panic" /\ fails # <<>> => SyncResult = "false"

C9_State ==
    op = "WaitGroup" =>
        /\ spawned = (IF spc = "start" THEN 0 ELSE 1)
        /\ (helper = "none") = (spc = "start")
        /\ helper \in {"send", "exit"} => wg = 0
        /\ stopc <= 1
        /\ Len(fails) <= 1
        /\ spc = "timedout" => timer = "fired"
        /\ spc = "parked" => stopc = 0 /\ timer # "fired"
        /\ spc = "got" \/ SyncResult = "true" => helper = "exit" /\ wg = 0 /\ stopc = 0 /\ fails = <<>>
        /\ fails # <<>> => OneTimeoutFail
        /\ CallOver =>
                /\ fails = <<>> <=> SyncResult = "true"
                /\ failer # "panic" /\ fails # <<>> => SyncResult = "false"

\* C9: WaitGroup returns true only after its helper found the counter at
\* zero and signalled stopc; the timer case, taken only after the timer
\* fired, gives exactly one timeout failure; each call starts exactly one
\* helper; the call always ends, whether or not the group ever completes.
C9_WaitGroup == [](C9_State) /\ [](op = "WaitGroup" => <>CallOver)

\* C9 witness: the call timed out and returned false while the wait group
\* is still incomplete and its one helper still waits.
C9_Witness ==
    /\ op = "WaitGroup"
    /\ CallOver
    /\ SyncResult = "false"
    /\ wg > 0
    /\ helper = "wait"
    /\ spawned = 1
    /\ Len(fails) = 1

\* the helper goroutine of WaitGroup exists and has not ended
HelperAlive == helper \in {"wait", "send"}

\* C29: the helper goroutine of WaitGroup is never blocked on its one send
\* to stopc, whose buffer of one is free whenever the helper is about to
\* send; it passes wg.Wait() only with the counter at zero; once the wait
\* group is complete the helper ends, also if the call has timed out and
\* returned before, so it lives on only while the group is incomplete.
C29_HelperEnds ==
    /\ [](op = "WaitGroup" =>
            /\ helper = "send" => stopc = 0 /\ ENABLED HelperSend
            /\ helper \in {"send", "exit"} => wg = 0
            /\ stopc <= 1)
    /\ [](op = "WaitGroup" /\ HelperAlive /\ wg = 0 => <>(helper = "exit"))

\* C29 witness: the call timed out and returned false while the group was
\* incomplete; the group completed afterwards and the helper ended, its
\* signal left in stopc's buffer.
C29_Witness ==
    /\ op = "WaitGroup"
    /\ CallOver
    /\ SyncResult = "false"
    /\ Len(fails) = 1
    /\ wg = 0
    /\ helper = "exit"
    /\ stopc = 1

\* max(retries, 0): the tries Retry's loop allows
Tries == IF retries > 0 THEN retries ELSE 0

\* C10: Retry calls rf at most `retries` times and never again after a
\* true; it returns true exactly when the last call returned true; after
\* `retries` calls that all returned false it makes exactly one Retry
\* failure carrying the retry count; with retries <= 0 rf is not called and
\* the assertion fails.
C10_Retry ==
    op = "Retry" =>
        /\ Len(rfcalls) <= Tries
        /\ \A i \in 1..(Len(rfcalls) - 1) : ~rfcalls[i]
        /\ Len(fails) <= 1
        /\ SyncResult = "true" => rfcalls # <<>> /\ rfcalls[Len(rfcalls)] /\ fails = <<>>
        /\ rfcalls # <<>> /\ rfcalls[Len(rfcalls)] => CallOver /\ SyncResult = "true"
        /\ fails # <<>> =>
                /\ Len(rfcalls) = Tries
                /\ \A i \in 1..Len(rfcalls) : ~rfcalls[i]
                /\ fails[1].test = "Retry"
                /\ \E needed \in (Tries * pause)..now : fails[1].ob = RetryInfo(needed, retries)
                /\ fails[1].ex = ExpectedText("Retry")
        /\ CallOver =>
                /\ fails = <<>> <=> SyncResult = "true"
                /\ failer # "panic" /\ fails # <<>> => SyncResult = "false"
                /\ retries <= 0 => rfcalls = <<>> /\ Len(fails) = 1

\* C10 witness: two tries allowed, both returned false, Retry reported its
\* one failure and returned false.
C10_Witness ==
    /\ op = "Retry"
    /\ retries = 2
    /\ CallOver
    /\ rfcalls = <<FALSE, FALSE>>
    /\ Len(fails) = 1
    /\ SyncResult = "false"

-----------------------------------------------------------------------------
\* The kernel-backed assertions (SpecKernel: one call, then the failer).

\* the one call of method m is over
Called(m) == Len(log) = 1 /\ log[1].m = m

\* the call failed and handed the failer a type-mismatch message in place
\* of the caller's messages
TypeMismatchReported ==
    /\ log[1].verdict = "fail"
    /\ Len(fails) = 1
    /\ Len(fails[1].msgs) = 1
    /\ \E e \in {"low and/or high are no " \o RangeTypeName(t) : t \in RangeTypes}
                \cup {"no valid type with a length", "full value is no string, array, or slice"} :
            fails[1].msgs = <<"type missmatch: " \o e>>

\* values with an element count
Sizeable == {"slice", "array", "map", "chan", "lenable", "[]byte"}
SizeOf(o) == IF o.k = "lenable" THEN o.v[1] ELSE Len(o.v)

\* the type both bounds of Range must have for the obtained value o, ""
\* if o is neither ordered nor sizeable
BoundType(o) ==
    IF o.k \in RangeTypes THEN o.k ELSE IF o.k \in Sizeable THEN "int" ELSE ""

\* C11: whenever low or high is not of the type the obtained value asks
\* for, Range fails with a type-mismatch message: it neither passes nor
\* reports a plain out-of-range failure.
C11_RangeTypeMismatch ==
    Called("Range") =>
        LET o == log[1].x
            low == log[1].y.v[1]
            high == log[1].y.v[2]
        IN  (low.k # BoundType(o) \/ high.k # BoundType(o)) => TypeMismatchReported

\* C12: with both bounds of the right type Range passes iff low <=
\* obtained <= high, bounds included, a collection being taken by its
\* element count; a failure hands the failer the obtained value, both
\* bounds and the caller's messages.
C12_RangeInclusive ==
    Called("Range") =>
        LET o == log[1].x
            low == log[1].y.v[1]
            high == log[1].y.v[2]
            size == IF o.k \in Sizeable THEN VInt(SizeOf(o)) ELSE o
        IN  (BoundType(o) # "" /\ low.k = BoundType(o) /\ high.k = BoundType(o)) =>
                /\ log[1].verdict = "pass" <=> (Leq(low, size) /\ Leq(size, high))
                /\ log[1].verdict = "pass" => fails = <<>> /\ log[1].ret = "true"
                /\ log[1].verdict # "pass" =>
                        /\ log[1].verdict = "fail"
                        /\ fails = <<[g |-> 1, test |-> "Range", ob |-> o, ex |-> LowHigh(low, high), msgs |-> NoMsgs]>>

\* C12 witness: Range(0, 1, 2) failed with obtained 0 and bounds 1 and 2
\* on the collecting failer.
C12_Witness ==
    /\ Called("Range")
    /\ failer = "validation"
    /\ log[1].ret = "false"
    /\ fails[1].ob = VInt(0)
    /\ fails[1].ex = LowHigh(VInt(1), VInt(2))
    /\ Len(details) = 1

\* the bytes a part is looked up by in a string or []byte
TextOf(part) == IF part.k \in {"string", "[]byte"} THEN part.v ELSE Sprintv(part)

\* part is contained in full, for a full value that is a container
Contained(part, full) ==
    IF full.k \in {"array", "slice"}
    THEN \E i \in 1..Len(full.v) : full.v[i].k = part.k /\ full.v[i].v = part.v
    ELSE \E i \in 1..(Len(full.v) + 1), j \in 0..Len(full.v) : SubSeq(full.v, i, j) = TextOf(part)

C14_ContainsNonTextualPart ==
    Called("Contains") =>
        LET part == log[1].x
            full == log[1].y
        IN  (full.k = "string" /\ part.k \notin {"string", "[]byte"} /\ ~Contained(part, full)) =>
                TypeMismatchReported

\* the whole of str matches the pattern: str is one of its alternatives
WholeMatch(str, pat) == \E a \in 1..Len(Alternatives(pat)) : Alternatives(pat)[a] = str

\* C15: Match(s, p) passes iff the whole of s matches p; a pattern that
\* matches only a prefix, a suffix or an inner part of s fails, patterns
\* with a top-level alternation included.
C15_MatchWholeString ==
    Called("Match") => (log[1].verdict = "pass" <=> WholeMatch(log[1].x.v, log[1].y.v))

\* the call failed with the text of a usage error in place of the caller's
\* messages and the description of the value in place of the value
UsageErrorReported ==
    /\ log[1].verdict = "fail"
    /\ Len(fails) = 1
    /\ fails[1].ob.k = "descr"
    /\ fails[1].msgs = <<"obtained is no array, chan, map, slice, string and does not understand Len()">>

\* C16: Length(s, n) passes iff n is the number of code points of the
\* text s, whatever its byte count, and Empty(s) iff s has none; arrays,
\* slices, maps and channels are taken by their element count, a value
\* with Len() by what Len() returns; any other value fails with a usage
\* error.
C16_LengthCountsCodePoints ==
    (Called("Length") \/ Called("Empty")) =>
        LET o == log[1].x
            n == IF log[1].m = "Length" THEN log[1].y.v[1] ELSE 0
        IN  /\ \A cps \in Texts :
                    o = VStr(Utf8String(cps)) => (log[1].verdict = "pass" <=> n = Len(cps))
            /\ o.k \in {"array", "slice", "map", "chan", "[]byte"} => (log[1].verdict = "pass" <=> n = Len(o.v))
            /\ o.k = "lenable" => (log[1].verdict = "pass" <=> n = o.v[1])
            /\ o.k \notin {"string", "array", "slice", "map", "chan", "[]byte", "lenable"} => UsageErrorReported
            /\ log[1].verdict \in {"pass", "fail"}

\* C16 witness: Length("ä€", 2) passed: two code points in five bytes.
C16_Witness ==
    /\ Called("Length")
    /\ log[1].x = VStr(Utf8String(<<228, 8364>>))
    /\ Len(log[1].x.v) = 5
    /\ log[1].y = VInt(2)
    /\ log[1].ret = "true"

Abs(n) == IF n < 0 THEN 0 - n ELSE n

\* C17: About(o, e, t) passes iff e - |t| <= o <= e + |t|, both ends
\* included, so that t and -t give the same verdict; a failure carries
\* the obtained and the expected number.
C17_AboutWithinExtent ==
    Called("About") =>
        LET o == log[1].x.v[1]
            e == log[1].y.v[1].v[1]
            t == log[1].y.v[2].v[1]
        IN  /\ log[1].verdict = "pass" <=> (e - Abs(t) <= o /\ o <= e + Abs(t))
            /\ log[1].verdict = Asserts_About(log[1].x, VFloat(e), VFloat(0 - t), NoMsgs).verdict
            /\ log[1].verdict = "fail" =>
                    Len(fails) = 1 /\ fails[1].ob = log[1].x /\ fails[1].ex = VFloat(e)

\* C17 witness: About(0, 1, -1) passed: a negative extent, obtained
\* on the lower end.
C17_Witness ==
    /\ Called("About")
    /\ log[1].x = VFloat(0)
    /\ log[1].y = AboutArgs(VFloat(1), VFloat(0 - 1))
    /\ log[1].ret = "true"

\* C18: Panics(pf) passes iff pf raises a fault and NotPanics(pf) iff pf
\* returns normally; PanicsWith(pf, reason) passes iff pf raises a fault
\* whose payload deep-equals reason; a fault of pf never reaches the
\* caller of the assertion.
C18_PanicCapture ==
    (Called("Panics") \/ Called("NotPanics") \/ Called("PanicsWith")) =>
        LET pf == log[1].x
            passed == log[1].verdict = "pass"
        IN  /\ log[1].verdict \in {"pass", "fail"}
            /\ log[1].m = "Panics" => (passed <=> Raises(pf))
            /\ log[1].m = "NotPanics" => (passed <=> ~Raises(pf))
            /\ log[1].m = "PanicsWith" => (passed <=> (Raises(pf) /\ Payload(pf) = log[1].y))

\* what OK asks of a value, by its shape
OKShape(x) ==
    CASE x.k = "bool" -> x = VBool(TRUE)
      [] x.k = "func() bool" -> x = FuncBool(TRUE)
      [] x.k = "int" -> x = VInt(0)
      [] x.k = "string" -> x = VStr(<<>>)
      [] x.k = "func() error" -> ErrorOrNil(x.v[1]) = Nil
      [] x.k = "errable" -> ErrorOrNil(x.v[1]) = Nil
      [] OTHER -> x = Nil

\* C19: OK(x) returns true iff x is as its shape demands: a true bool, a
\* func() bool returning true, the int 0, the empty string, a func() error
\* returning nil, else nil or an errable without error. NotOK is the
\* inverse: of OK(x) and NotOK(x) one returns true and the other reports
\* one failure.
C19_OKAndNotOKAreInverse ==
    (failer \in {"validation", "testing"} /\ (Called("OK") \/ Called("NotOK"))) =>
        LET x == log[1].x
            other == IF log[1].m = "OK" THEN Asserts_NotOK(x, NoMsgs) ELSE Asserts_OK(x, NoMsgs)
        IN  /\ log[1].verdict \in {"pass", "fail"}
            /\ log[1].verdict = "pass" <=> (IF log[1].m = "OK" THEN OKShape(x) ELSE ~OKShape(x))
            /\ other.verdict = (IF log[1].verdict = "pass" THEN "fail" ELSE "pass")
            /\ log[1].verdict = "pass" => log[1].ret = "true" /\ fails = <<>>
            /\ log[1].verdict = "fail" /\ pc[1] = "idle" => log[1].ret = "false" /\ Len(fails) = 1

RECURSIVE Flatten(_)
Flatten(seqs) == IF seqs = <<>> THEN <<>> ELSE Head(seqs) \o Flatten(Tail(seqs))

\* the lines printed while the buffered printer was bound, as it stores them
BufferedLines ==
    LET ls == SelectSeq(out, LAMBDA l : l.sink = "buffered")
    IN  [i \in 1..Len(ls) |-> Buffered(ls[i].level, ls[i].text)]

\* C20: while the buffered printer is bound every log and failure line
\* of the failer goes to it, in call order, and SetPrinter returns the
\* printer bound before; Flush returns the lines buffered since the last
\* Flush, in order, and empties the buffer: all Flush results and the
\* buffer, one after the other, are the lines printed to the buffered
\* printer, and a Flush right after a Flush returns nothing.
C20_BufferedPrinterDrainsOnce ==
    /\ [](Flatten(flushed) \o buffer = BufferedLines)
    /\ [][/\ Len(old') > Len(old) => old'[Len(old')] = printer
          /\ Len(flushed') > Len(flushed) =>
                /\ flushed'[Len(flushed')] = buffer
                /\ buffer' = <<>>
          /\ (Len(out') > Len(out) /\ printer = "buffered") =>
                /\ Len(buffer') = Len(buffer) + 1
                /\ buffer'[Len(buffer')].text = out'[Len(out')].text]_vars

\* C20 witness: on a testing failer the test bound the buffered printer,
\* getting the standard one back, logged a line and failed an assertion;
\* the first Flush returned the two lines in that order and the second
\* nothing.
C20_Witness ==
    /\ failer = "testing"
    /\ old = <<"standard">>
    /\ Len(flushed) = 2
    /\ Len(flushed[1]) = 2
    /\ flushed[1][1].prefix = "[LOG] " /\ flushed[1][1].text.test = "Logf"
    /\ flushed[1][2].prefix = "[ERR] " /\ flushed[1][2].text.test = "True"
    /\ flushed[2] = <<>>

-----------------------------------------------------------------------------
\* Scoped changes of the failer: call-stack offset and failable.

\* the increment/restore calls so far are last-in-first-out: each restore
\* belongs to the latest increment not yet restored
RECURSIVE Nested(_, _)
Nested(evs, open) ==
    IF evs = <<>> THEN TRUE
    ELSE IF Head(evs).op \in {"incr", "bind"} THEN Nested(Tail(evs), Append(open, Head(evs).g))
    ELSE /\ open # <<>>
         /\ open[Len(open)] = Head(evs).g
         /\ Nested(Tail(evs), SubSeq(open, 1, Len(open) - 1))

ProperlyNested == Nested(offlog, <<>>)

AllRestored == \A g \in Procs : held[g] = <<>>

\* the location the failer resolves in this step, if it resolves one
Located ==
    IF Len(details') > Len(details) THEN details'[Len(details')].location
    ELSE IF Len(out') > Len(out) THEN out'[Len(out')].text.loc
    ELSE NoLoc

\* C21: IncrCallstackOffset raises the offset by one and its restore
\* function sets it to the value it had before that increment; after
\* properly nested increment/restore pairs the offset is the initial 4
\* again; a failure raised inside helpers that each incremented once,
\* nobody else holding an increment, is located at the caller of the
\* outermost helper, in the test function.
C21_OffsetScoped ==
    /\ [](ProperlyNested /\ AllRestored => offset = InitialOffset)
    /\ [][/\ Len(offlog') > Len(offlog) =>
                LET e == offlog'[Len(offlog')]
                IN  IF e.op = "incr" THEN offset' = offset + 1 /\ e.saved = offset
                    ELSE offset' = e.saved
          /\ \A g \in Procs :
                (/\ pc[g] \in {"v_details", "t_print"}
                 /\ pc'[g] # pc[g]
                 /\ ProperlyNested
                 /\ \A h \in Procs \ {g} : held[h] = <<>>)
                    => Located = TestFrame(g, cur[g].line)]_vars

\* C21 witness: goroutine 1 went through a helper, entered one again and
\* failed an assertion inside it: the offset is 5 and the failure is
\* located in its test function.
C21_Witness ==
    /\ failer = "validation"
    /\ Len(offlog) = 3 /\ offlog[2].op = "restore" /\ offlog[2].saved = InitialOffset
    /\ held[1] = <<InitialOffset>>
    /\ offset = InitialOffset + 1
    /\ pc[1] = "unlock"
    /\ Len(details) = 1
    /\ details[1].location = TestFrame(1, cur[1].line)

\* the location the failer resolved last
LastLocation ==
    IF failer = "validation" THEN details[Len(details)].location ELSE out[Len(out)].text.loc

\* C28: whatever the interleaving of the increment/restore pairs of the
\* goroutines sharing the failer, once every restore function has been
\* called the offset is the initial one again, and a failure of a
\* goroutine that holds no increment is located with the initial offset,
\* in its test function.
C28_OffsetUnderInterleaving ==
    /\ AllRestored => offset = InitialOffset
    /\ \A g \in Procs :
            (pc[g] = "unlock" /\ held[g] = <<>>) =>
                LastLocation = here(CallStack(g, cur[g].frames, cur[g].line), InitialOffset)

\* one goroutine alone has bound failables so far
OneBinder == \A i, j \in 1..Len(offlog) : offlog[i].g = offlog[j].g

\* the failable of the innermost SetFailable call not yet restored
InnermostBound ==
    IF \A g \in Procs : heldf[g] = <<>> THEN FirstFailable
    ELSE LET g == CHOOSE h \in Procs : heldf[h] # <<>> IN heldf[g][Len(heldf[g])].new

\* C22: on a testing failer SetFailable(f) binds f, the target of the
\* fail signals from then on, and its restorer binds the failable bound
\* just before the call, so that nested calls restored in reverse order
\* leave the first failable bound; mode, printer and offset stay as they
\* are; on a panic or validation failer nothing changes at all.
C22_FailableScoped ==
    /\ [](OneBinder /\ ProperlyNested /\ (\A g \in Procs : heldf[g] = <<>>) => failable = FirstFailable)
    /\ [][/\ \A g \in Procs :
                /\ (pc[g] = "sf_write" /\ pc'[g] = "idle") => failable' = heldf[g][Len(heldf[g])].new
                /\ (Len(heldf'[g]) > Len(heldf[g]) /\ OneBinder') => heldf'[g][Len(heldf'[g])].old = failable
                /\ Len(heldf'[g]) < Len(heldf[g]) =>
                        failable' = IF failer = "testing" THEN offlog'[Len(offlog')].saved ELSE failable
          /\ (Len(targets') > Len(targets) /\ OneBinder /\ \A g \in Procs : pc[g] # "sf_write") =>
                targets'[Len(targets')] = InnermostBound
          /\ Len(offlog') > Len(offlog) \/ (\E g \in Procs : pc[g] = "sf_write" /\ pc'[g] = "idle") =>
                UNCHANGED <<mode, printer, offset, buffer, details, errs, out, signals, targets>>
          /\ failer # "testing" => failable' = failable /\ targets' = targets]_vars

\* C22 witness: on a testing failer goroutine 1 bound sub-test 1, then
\* sub-test 2, failed an assertion, which signalled sub-test 2, and ran
\* the two restorers: the first failable is bound again.
C22_Witness ==
    /\ failer = "testing"
    /\ Len(offlog) = 4 /\ OneBinder /\ ProperlyNested
    /\ offlog[1].g = 1
    /\ offlog[2].op = "bind" /\ offlog[2].saved = 1
    /\ offlog[3].op = "rebind" /\ offlog[3].saved = 1
    /\ targets = <<2>>
    /\ failable = FirstFailable
    /\ heldf[1] = <<>>

\* the goroutine is between a read and a write of the failer's state:
\* inside Fail after f.mu.Lock(), or inside SetFailable
InAccess(g) == pc[g] \in {"v_details", "v_errs", "t_print", "t_signal", "unlock", "sf_write"}

\* C25: on a validation or testing failer every access to the failer's
\* state (details, errors, offset, printer, failable) is made by the
\* goroutine holding the failer's mutex, so no two goroutines are inside
\* such an access at once; a failable swap never meets a Fail in progress.
C25_StateAccessUnderLock ==
    failer \in {"validation", "testing"} =>
        /\ \A g \in Procs : InAccess(g) => mu = g
        /\ \A g, h \in Procs : (g # h /\ InAccess(g)) => ~InAccess(h)

\* the raw error an error-bearing value gives, the value itself otherwise
RawError(x) == IF x.k = "errable" THEN ErrorOrNil(x.v[1]) ELSE x

\* C26: ErrorMatch and ErrorContains report one failure, "error is nil",
\* and return false when the error is absent, be the value nil itself or
\* an errable whose Err() is nil, and never raise a hard fault; a raw
\* error and an errable holding that error get the same verdict.
C26_AbsentErrorUniform ==
    (Called("ErrorMatch") \/ Called("ErrorContains")) =>
        /\ log[1].verdict \in {"pass", "fail"}
        /\ RawError(log[1].x) = Nil =>
                /\ log[1].verdict = "fail"
                /\ Len(fails) = 1 /\ fails[1].msgs = <<"error is nil">>
        /\ log[1].verdict = Facade(log[1].m, RawError(log[1].x), log[1].y, NoMsgs).verdict

-----------------------------------------------------------------------------
\* The packages around asserts hold a facade but, on valid input, never
\* call it: their specifications start from an idle validation facade.

\* NewValidation, no facade call made
IdleAsserts ==
    /\ failer = "validation"
    /\ mode = NoFailing
    /\ printer = "standard"
    /\ offset = InitialOffset
    /\ mu = 0
    /\ details = <<>>
    /\ errs = <<>>
    /\ out = <<>>
    /\ NoPrints
    /\ NoScopes
    /\ signals = <<>>
    /\ fails = <<>>
    /\ pc = [g \in Procs |-> "idle"]
    /\ cur = [g \in Procs |-> NoCall]
    /\ ret = [g \in Procs |-> "none"]
    /\ raised = [g \in Procs |-> NoFault]
    /\ log = <<>>
    /\ NoSync

-----------------------------------------------------------------------------
\* Package web: the Response of a simulated request.
\*
\* SpecWeb   a handler calling WriteHeader, Write and Body on one Response

\* calls on the response in one behaviour
MaxWebOps == 4

\* status codes a handler sets
StatusCodes == {200, 404, 500}

\* the byte slices a handler writes, the empty one among them
Chunks == {<<>>, <<1>>, <<2>>, <<1, 2>>}

\* Response.WriteHeader without its test of the body's length
WriteHeaderAlways(code) ==
    /\ statusCode' = code
    /\ writes' = Append(writes, [op |-> "WriteHeader", code |-> code, bs |-> <<>>])
    /\ UNCHANGED body

\* Response.WriteHeader
WriteHeader(code) ==
    /\ statusCode' = IF Len(body) = 0 THEN code ELSE statusCode
    /\ writes' = Append(writes, [op |-> "WriteHeader", code |-> code, bs |-> <<>>])
    /\ UNCHANGED body

\* Response.StatusCode
StatusCode == statusCode

\* Response.Write: appends bs, returns the body's length
Write(bs) ==
    /\ body' = body \o bs
    /\ writes' = Append(writes, [op |-> "Write", code |-> Len(body \o bs), bs |-> bs])
    /\ UNCHANGED statusCode

\* Response.Body: a copy of the body
Body ==
    /\ writes' = Append(writes, [op |-> "Body", code |-> 0, bs |-> [i \in 1..Len(body) |-> body[i]]])
    /\ UNCHANGED <<statusCode, body>>

NextWeb ==
    /\ Len(writes) < MaxWebOps
    /\ \/ \E code \in StatusCodes : WriteHeader(code)
       \/ \E bs \in Chunks : Write(bs)
       \/ Body
    /\ UNCHANGED <<coreVars, syncVars, envVars, captureVars>>

InitWeb ==
    /\ IdleAsserts
    /\ NoAux

SpecWeb == InitWeb /\ [][NextWeb]_vars

\* the bytes the first n calls wrote, in write order
RECURSIVE WrittenBy(_)
WrittenBy(n) ==
    IF n = 0 THEN <<>>
    ELSE WrittenBy(n - 1) \o (IF writes[n].op = "Write" THEN writes[n].bs ELSE <<>>)

\* the status code after the first n calls if WriteHeader counts only
\* while nothing has been written
RECURSIVE StatusAfter(_)
StatusAfter(n) ==
    IF n = 0 THEN 200
    ELSE IF writes[n].op = "WriteHeader" /\ WrittenBy(n - 1) = <<>> THEN writes[n].code
    ELSE StatusAfter(n - 1)

\* C24: the status code of a simulated response starts at 200; a
\* WriteHeader sets it while no body byte has been written and leaves it
\* alone once a non-empty Write has happened; Body() returns the written
\* bytes concatenated in write order.
C24_StatusFrozenByBody ==
    /\ StatusCode = StatusAfter(Len(writes))
    /\ body = WrittenBy(Len(writes))
    /\ \A i \in 1..Len(writes) : writes[i].op = "Body" => writes[i].bs = WrittenBy(i - 1)

\* a WriteHeader before any write set 404; after a Write of one byte a
\* WriteHeader(500) left 404 in place, and Body returned that byte
C24_Witness ==
    /\ Len(writes) = 4
    /\ writes[1] = [op |-> "WriteHeader", code |-> 404, bs |-> <<>>]
    /\ writes[2].op = "Write" /\ writes[2].bs = <<2>>
    /\ writes[3] = [op |-> "WriteHeader", code |-> 500, bs |-> <<>>]
    /\ writes[4].op = "Body" /\ writes[4].bs = <<2>>
    /\ StatusCode = 404

-----------------------------------------------------------------------------
\* Package environments: Variables changes environment variables and
\* restores them.
\*
\* SpecEnv   one Variables instance, the only one changing the environment

\* calls on the instance in one behaviour
MaxEnvOps == 3

\* the values a variable is set to, the empty string among them
EnvValues == {"", "x", "y"}

\* what os.LookupEnv yields for a variable set to value
IsSet(value) == [value |-> value, ok |-> TRUE]

\* os.Getenv: the value, the empty string if the variable is not set
Getenv(key) == env[key].value

\* os.Setenv
Setenv(e, key, value) == [e EXCEPT ![key] = IsSet(value)]

\* os.Unsetenv
Unsetenv(e, key) == [e EXCEPT ![key] = NotSet]

\* ov := os.Getenv(key); if _, ok := v.vars[key]; !ok { v.vars[key] = ov }
Saved(key) ==
    IF key \in DOMAIN evars THEN evars
    ELSE [k \in DOMAIN evars \cup {key} |-> IF k = key THEN Getenv(key) ELSE evars[k]]

\* Variables.Set
Variables_Set(key, value) ==
    /\ evars' = Saved(key)
    /\ env' = Setenv(env, key, value)
    /\ envops' = Append(envops, [op |-> "Set", key |-> key, value |-> value])
    /\ UNCHANGED env0

\* Variables.Unset
Variables_Unset(key) ==
    /\ evars' = Saved(key)
    /\ env' = Unsetenv(env, key)
    /\ envops' = Append(envops, [op |-> "Unset", key |-> key, value |-> ""])
    /\ UNCHANGED env0

\* Variables.Restore: os.Setenv(key, value) for every entry of v.vars; the
\* keys differ, so the map's iteration order does not show
Variables_Restore ==
    /\ env' = [k \in Keys |-> IF k \in DOMAIN evars THEN IsSet(evars[k]) ELSE env[k]]
    /\ envops' = Append(envops, [op |-> "Restore", key |-> "", value |-> ""])
    /\ UNCHANGED <<env0, evars>>

NextEnv ==
    /\ Len(envops) < MaxEnvOps
    /\ \/ \E key \in Keys, value \in EnvValues : Variables_Set(key, value)
       \/ \E key \in Keys : Variables_Unset(key)
       \/ Variables_Restore
    /\ UNCHANGED <<coreVars, syncVars, webVars, captureVars>>

\* NewVariables, in an environment where each variable is set or not
InitEnv ==
    /\ IdleAsserts
    /\ env \in [Keys -> {NotSet} \cup {IsSet(value) : value \in EnvValues}]
    /\ env0 = env
    /\ evars = EmptyMap
    /\ envops = <<>>
    /\ NoResponse
    /\ NoCapture

SpecEnv == InitEnv /\ [][NextEnv]_vars

\* the last call on the instance was Restore
Restored == Len(envops) > 0 /\ envops[Len(envops)].op = "Restore"

\* C23: once Restore has run, every variable changed through the instance
\* by Set or Unset is as it was before its first change, and the variables
\* never touched are as they were.
C23_RestoreGivesBackEnvironment ==
    Restored => \A key \in Keys : env[key] = env0[key]

-----------------------------------------------------------------------------
\* The tested wait.
\*
\* SpecTested   one WaitTested call on a channel the test sends on or
\*              closes, with the validator of TestAssertWaitTested

\* the tester of TestAssertWaitTested: an error unless the value is the
\* bool true
Tester(v) == IF v.k = "bool" /\ v = VBool(TRUE) THEN Nil ELSE VError(1)

\* WaitTested, case obtained := <-sigc: err := test(obtained);
\* return a.Nil(err, msgs...), where Nil calls Fail(Nil, err, nil, msgs...)
WaitTestedCheck ==
    /\ op = "WaitTested"
    /\ spc = "got"
    /\ LET obtained == recvd[Len(recvd)].v
           err == Tester(obtained)
           r == Delegated(Asserts_Nil(err, NoMsgs), "WaitTested")
       IN  /\ tested' = Append(tested, [v |-> obtained, err |-> err])
           /\ IF r.verdict = "fail"
              THEN /\ pc' = [pc EXCEPT ![1] = "Fail"]
                   /\ cur' = [cur EXCEPT ![1] = [SyncCall("fail", r.ob, r.ex) EXCEPT
                                                    !.test = r.test, !.frames = r.frames]]
                   /\ fails' = Append(fails, [g |-> 1, test |-> r.test, ob |-> r.ob, ex |-> r.ex,
                                              msgs |-> NoMsgs])
                   /\ spc' = "failing"
                   /\ UNCHANGED <<auxVars, failerVars, ret, raised, log, timer>>
              ELSE ReturnTrue(obtained, Nil)
    /\ UNCHANGED <<paramVars, now, chanVars, recvd, groupVars, retryVars>>

NextTested ==
    \/ StartCall
    \/ Select
    \/ WaitTestedCheck
    \/ Timeout
    \/ FailReturned
    \/ Lock(1)
    \/ AppendDetail(1)
    \/ AppendErr(1)
    \/ TestingPrint(1)
    \/ TestingSignal(1)
    \/ Unlock(1)
    \/ PanicPrint(1)
    \/ PanicRaise(1)
    \/ \E v \in SigVals : Send(v)
    \/ Close
    \/ Tick
    \/ TimerFire

\* the configurations WaitTested is called in
InitTested ==
    /\ failer \in {"panic", "validation", "testing"}
    /\ mode = (IF failer = "testing" THEN FailContinue ELSE NoFailing)
    /\ printer = "standard"
    /\ offset = (IF failer = "panic" THEN 0 ELSE InitialOffset)
    /\ mu = 0
    /\ details = <<>>
    /\ errs = <<>>
    /\ out = <<>>
    /\ NoPrints
    /\ NoScopes
    /\ NoAux
    /\ signals = <<>>
    /\ fails = <<>>
    /\ pc = [g \in Procs |-> "idle"]
    /\ cur = [g \in Procs |-> NoCall]
    /\ ret = [g \in Procs |-> "none"]
    /\ raised = [g \in Procs |-> NoFault]
    /\ log = <<>>
    /\ op = "WaitTested"
    /\ timeout \in 0..MaxTimeout
    /\ want = Nil
    /\ now = 0
    /\ sigc = <<>>
    /\ closedAt = -1
    /\ sends = 0
    /\ spc = "start"
    /\ timer = "idle"
    /\ recvd = <<>>
    /\ wg = 0
    /\ helper = "none"
    /\ stopc = 0
    /\ spawned = 0
    /\ retries = 0
    /\ pause = 0
    /\ rloop = 0
    /\ rfcalls = <<>>
    /\ tested = <<>>

SpecTested == InitTested /\ [][NextTested]_vars

\* the validator ran at most once, on the one value received, and the
\* call returns true exactly if it ran and returned no error; the kinds
\* the call's failure may be reported under are kinds
TestedWait(kinds) ==
    /\ Len(recvd) <= 1
    /\ Len(tested) <= Len(recvd)
    /\ \A i \in 1..Len(tested) : tested[i].v = recvd[i].v /\ tested[i].err = Tester(recvd[i].v)
    /\ spc = "timedout" => timer = "fired" /\ recvd = <<>>
    /\ Len(fails) <= 1
    /\ \A i \in 1..Len(fails) : fails[i].test \in kinds
    /\ SyncResult = "true" => Len(tested) = 1 /\ tested[1].err = Nil /\ fails = <<>>
    /\ CallOver =>
            /\ Len(tested) = Len(recvd)
            /\ (Len(tested) = 1 /\ tested[1].err = Nil) => SyncResult = "true"
            /\ SyncResult # "true" => Len(fails) = 1
            /\ recvd = <<>> => OneTimeoutFail

\* C27: WaitTested returns true exactly when it received a value and the
\* validator returned no error for it; the validator runs at most once and
\* only on a received value; a rejected value and a timeout are each
\* reported exactly once, as a failure of kind WaitTested.
C27_WaitTested == TestedWait({"WaitTested"})

-----------------------------------------------------------------------------
\* Package capture: Stdout, Stderr and Both run f with the stream replaced
\* by the write end of a pipe and return what was read from the pipe.
\*
\* SpecCapture      one call of Stdout, Stderr or Both with an f that writes
\*                  a given sequence of bytes to the two streams
\* SpecCaptureFair  the same, every goroutine that can run does run

\* bytes the pipe buffers before a write blocks
PipeCap == 2

\* bytes f writes in all
MaxOutput == 3

\* the byte values f writes
OutBytes == {1, 2}

\* what f writes: stream and byte, in order
RECURSIVE Outputs(_)
Outputs(n) ==
    IF n = 0 THEN {<<>>}
    ELSE Outputs(n - 1) \cup {Append(o, [s |-> s, b |-> b]) : o \in Outputs(n - 1), s \in Streams, b \in OutBytes}

\* the statements of the call in order, as step and stream; Both runs
\* Stdout around an f that runs Stderr around the caller's f
CaptureOf(s) ==
    <<[do |-> "spawn", s |-> s], [do |-> "close", s |-> s], [do |-> "restore", s |-> s], [do |-> "recv", s |-> s]>>

Plan(kind) ==
    CASE kind = "Stdout" -> <<[do |-> "install", s |-> "out"], [do |-> "f", s |-> ""]>> \o CaptureOf("out")
      [] kind = "Stderr" -> <<[do |-> "install", s |-> "err"], [do |-> "f", s |-> ""]>> \o CaptureOf("err")
      [] kind = "Both" -> <<[do |-> "install", s |-> "out"], [do |-> "install", s |-> "err"], [do |-> "f", s |-> ""]>>
                                \o CaptureOf("err") \o CaptureOf("out")
      [] OTHER -> <<>>

\* the capture call has returned
CaptureDone == cpc > Len(Plan(ckind))

\* the statement the caller is at
At(do) == ~CaptureDone /\ Plan(ckind)[cpc].do = do

Stream == Plan(ckind)[cpc].s

\* old := os.Stdout; r, w, _ := os.Pipe(); os.Stdout = w
Install ==
    /\ At("install")
    /\ saved' = [saved EXCEPT ![Stream] = bound[Stream]]
    /\ bound' = [bound EXCEPT ![Stream] = "pipe"]
    /\ pipe' = [pipe EXCEPT ![Stream] = <<>>]
    /\ wopen' = [wopen EXCEPT ![Stream] = TRUE]
    /\ cpc' = cpc + 1
    /\ UNCHANGED <<ckind, todo, written, reader, buf, captured>>

\* f writes its next byte: to the pipe, where the write blocks while the
\* pipe's buffer is full, or to the original stream
FWrite ==
    /\ At("f")
    /\ todo # <<>>
    /\ LET s == Head(todo).s
           b == Head(todo).b
       IN  /\ IF bound[s] = "pipe"
              THEN /\ Len(pipe[s]) < PipeCap
                   /\ pipe' = [pipe EXCEPT ![s] = Append(@, b)]
              ELSE pipe' = pipe
           /\ written' = [written EXCEPT ![s] = Append(@, b)]
    /\ todo' = Tail(todo)
    /\ UNCHANGED <<ckind, cpc, bound, saved, wopen, reader, buf, captured>>

\* f returns
FReturn ==
    /\ At("f")
    /\ todo = <<>>
    /\ cpc' = cpc + 1
    /\ UNCHANGED <<ckind, todo, written, bound, saved, pipe, wopen, reader, buf, captured>>

\* outC := make(chan []byte); go func() { io.Copy(&buf, r); outC <- buf.Bytes() }()
Spawn ==
    /\ At("spawn")
    /\ reader' = [reader EXCEPT ![Stream] = "copy"]
    /\ cpc' = cpc + 1
    /\ UNCHANGED <<ckind, todo, written, bound, saved, pipe, wopen, buf, captured>>

\* w.Close()
CloseWriter ==
    /\ At("close")
    /\ wopen' = [wopen EXCEPT ![Stream] = FALSE]
    /\ cpc' = cpc + 1
    /\ UNCHANGED <<ckind, todo, written, bound, saved, pipe, reader, buf, captured>>

\* os.Stdout = old
RestoreStream ==
    /\ At("restore")
    /\ bound' = [bound EXCEPT ![Stream] = saved[Stream]]
    /\ cpc' = cpc + 1
    /\ UNCHANGED <<ckind, todo, written, saved, pipe, wopen, reader, buf, captured>>

\* return Captured{buffer: <-outC}: outC is unbuffered, the receive meets
\* the reader's send
Receive ==
    /\ At("recv")
    /\ reader[Stream] = "send"
    /\ captured' = [captured EXCEPT ![Stream] = <<buf[Stream]>>]
    /\ reader' = [reader EXCEPT ![Stream] = "exit"]
    /\ cpc' = cpc + 1
    /\ UNCHANGED <<ckind, todo, written, bound, saved, pipe, wopen, buf>>

\* io.Copy: a read takes what the pipe holds
ReaderCopy(s) ==
    /\ reader[s] = "copy"
    /\ pipe[s] # <<>>
    /\ buf' = [buf EXCEPT ![s] = @ \o pipe[s]]
    /\ pipe' = [pipe EXCEPT ![s] = <<>>]
    /\ UNCHANGED <<ckind, cpc, todo, written, bound, saved, wopen, reader, captured>>

\* io.Copy: a read on the empty pipe with its write end closed gives EOF
ReaderEOF(s) ==
    /\ reader[s] = "copy"
    /\ pipe[s] = <<>>
    /\ ~wopen[s]
    /\ reader' = [reader EXCEPT ![s] = "send"]
    /\ UNCHANGED <<ckind, cpc, todo, written, bound, saved, pipe, wopen, buf, captured>>

CaptureStep ==
    \/ Install
    \/ FWrite
    \/ FReturn
    \/ Spawn
    \/ CloseWriter
    \/ RestoreStream
    \/ Receive
    \/ \E s \in Streams : ReaderCopy(s)
    \/ \E s \in Streams : ReaderEOF(s)

NextCapture ==
    /\ CaptureStep
    /\ UNCHANGED <<coreVars, syncVars, envVars, webVars>>

\* a call of one of the three functions with an f that terminates after
\* writing at most MaxOutput bytes
InitCapture ==
    /\ IdleAsserts
    /\ NoEnv
    /\ NoResponse
    /\ ckind \in {"Stdout", "Stderr", "Both"}
    /\ cpc = 1
    /\ todo \in Outputs(MaxOutput)
    /\ written = [s \in Streams |-> <<>>]
    /\ bound = [s \in Streams |-> "orig"]
    /\ saved = [s \in Streams |-> "none"]
    /\ pipe = [s \in Streams |-> <<>>]
    /\ wopen = [s \in Streams |-> FALSE]
    /\ reader = [s \in Streams |-> "none"]
    /\ buf = [s \in Streams |-> <<>>]
    /\ captured = [s \in Streams |-> <<>>]

SpecCapture == InitCapture /\ [][NextCapture]_vars

\* the caller and the reader goroutines run whenever they can
SpecCaptureFair == SpecCapture /\ WF_vars(NextCapture)

\* the streams the call captures
CapturedStreams ==
    CASE ckind = "Stdout" -> {"out"}
      [] ckind = "Stderr" -> {"err"}
      [] OTHER -> Streams

\* what the call returns is what f wrote to the captured streams, and
\* both streams are the original ones again
CaptureExact ==
    CaptureDone =>
        /\ todo = <<>>
        /\ \A s \in CapturedStreams : captured[s] = <<written[s]>>
        /\ \A s \in Streams : bound[s] = "orig"

\* C30: Stdout, Stderr and Both return for every f that returns, however
\* many bytes f writes, more than the pipe buffers included; they return
\* the bytes f wrote to the captured stream, in order; on return os.Stdout
\* and os.Stderr are the original streams again.
C30_CaptureTerminates == []CaptureExact /\ <>CaptureDone

====
